---- MODULE Spec2Model ----
(***************************************************************************)
(* Model of GeoJSONMapRenderer (src/simplified-world-map.js): the          *)
(* equirectangular projection with zoom and pan, the wheel / drag handlers *)
(* and the pan clamp; the hit tests for countries and shipping lanes; the  *)
(* label layout of drawCities and drawBattleZones, with the visibility     *)
(* rules of ConflictZonesData (src/conflict-zones-data.js); drawPolygon.   *)
(* Also ConflictNewsService (src/conflict-news-service.js) and             *)
(* UkraineFrontlineData (src/ukraine-frontline-data.js), each with the     *)
(* calls in progress between their awaits.                                 *)
(*                                                                         *)
(* JavaScript numbers are modelled as exact rationals <<n, d>> in lowest   *)
(* terms with d > 0, so that the projection, its inverse and the zoom      *)
(* anchoring are computed, step by step, as the code computes them.  IEEE  *)
(* rounding is modelled in isPointInPolygon only, whose result depends on  *)
(* it, with a mantissa of MantissaBits bits; elsewhere it is not modelled. *)
(***************************************************************************)
EXTENDS Integers, Sequences, FiniteSets, TLC

VARIABLES
    zoom, panX, panY,            \* this.zoom, this.panX, this.panY
    isDragging,                  \* this.isDragging
    dragStartX, dragStartY,      \* this.dragStartX, this.dragStartY
    lastPanX, lastPanY,          \* this.lastPanX, this.lastPanY
    nEvents,                     \* zooming wheel events and mouse-down events so far
    call,                        \* the last call: method, arguments, result
    geoIn, screenOut,            \* toCanvas: argument (lat, lon), result (x, y)
    screenIn, geoOut,            \* toLatLon: argument (x, y), result (lat, lon)
    countries,                   \* this.countries: null or the loaded features
    args,                        \* the last call's arguments other than the cursor
    ctxCalls,                    \* the calls the last draw method made on this.ctx
    conflictData,                \* the conflictData the draw methods are given
    textMetrics,                 \* ctx.measureText: name -> width
    labelBoxes,                  \* the list the last draw method returned
    frames,                      \* the final lists of the frames rendered so far
    now,                         \* Date.now(), in milliseconds
    cache, isLoading,            \* ConflictNewsService: this.cache, this.isLoading
    fetches,                     \* the fetchNewsForZone calls awaiting a proxy
    preloadTimer,                \* the setTimeout of preloadNews is pending
    occupiedTerritory,           \* UkraineFrontlineData: this.occupiedTerritory,
    lastUpdate, error,           \* this.lastUpdate, this.error,
    isLoadingData,               \* this.isLoading
    loads                        \* the loadLatestData calls awaiting a response

viewVars == <<zoom, panX, panY, isDragging, dragStartX, dragStartY,
              lastPanX, lastPanY>>
projVars == <<geoIn, screenOut, screenIn, geoOut>>
queryVars == <<countries, args, ctxCalls>>
labelVars == <<conflictData, textMetrics, labelBoxes, frames>>
newsVars == <<cache, isLoading, fetches, preloadTimer>>
frontlineVars == <<occupiedTerritory, lastUpdate, error, isLoadingData, loads>>
serviceVars == <<now, newsVars, frontlineVars>>
vars == <<zoom, panX, panY, isDragging, dragStartX, dragStartY,
          lastPanX, lastPanY, nEvents, call,
          geoIn, screenOut, screenIn, geoOut,
          countries, args, ctxCalls,
          conflictData, textMetrics, labelBoxes, frames,
          now, cache, isLoading, fetches, preloadTimer,
          occupiedTerritory, lastUpdate, error, isLoadingData, loads>>

----------------------------------------------------------------------------
(* Bounds of the model *)

CanvasWidth == 8
CanvasHeight == 4
MaxEvents == 2

----------------------------------------------------------------------------
(* Exact rational arithmetic *)

Abs(n) == IF n < 0 THEN -n ELSE n

RECURSIVE GCD(_, _)
GCD(a, b) == IF b = 0 THEN a ELSE GCD(b, a % b)

Rat(n, d) ==
    LET s == IF d < 0 THEN -1 ELSE 1
        g == GCD(Abs(n), Abs(d))
    IN  <<(s * n) \div g, (s * d) \div g>>

R(n) == <<n, 1>>

RNeg(a) == <<-a[1], a[2]>>

RAdd(a, b) ==
    LET g == GCD(a[2], b[2])
    IN  Rat(a[1] * (b[2] \div g) + b[1] * (a[2] \div g), (a[2] \div g) * b[2])

RSub(a, b) == RAdd(a, RNeg(b))

RMul(a, b) ==
    LET g1 == GCD(Abs(a[1]), b[2])
        g2 == GCD(Abs(b[1]), a[2])
    IN  Rat((a[1] \div g1) * (b[1] \div g2), (a[2] \div g2) * (b[2] \div g1))

\* a / b for b # 0 (a zero divisor does not occur: zoom and the canvas size
\* are positive)
RDiv(a, b) == RMul(a, Rat(b[2], b[1]))

RLe(a, b) ==
    LET g == GCD(a[2], b[2])
    IN  a[1] * (b[2] \div g) <= b[1] * (a[2] \div g)

RLt(a, b) == ~RLe(b, a)

RMax(a, b) == IF RLe(a, b) THEN b ELSE a
RMin(a, b) == IF RLe(a, b) THEN a ELSE b
RAbs(a) == <<Abs(a[1]), a[2]>>

----------------------------------------------------------------------------
(* Program constants *)

minZoom == R(1)
maxZoom == R(25)
zoomOutFactor == Rat(9, 10)
zoomInFactor == Rat(11, 10)

width == R(CanvasWidth)
height == R(CanvasHeight)

----------------------------------------------------------------------------
(* Inputs *)

\* cursor positions of the mouse-down and mouse-move events: a corner and an
\* off-centre interior point of the canvas
MousePoints == { <<0, 0>>, <<CanvasWidth \div 4, CanvasHeight \div 4>> }

\* cursor positions of the wheel events: the same, and a point outside the
\* canvas
WheelPoints == MousePoints \cup { <<CanvasWidth + 2, -1>> }

InCanvas(x, y) == x \in 0..CanvasWidth /\ y \in 0..CanvasHeight

\* e.deltaY of a wheel event
DeltaYs == {-1, 0, 1}

None == <<>>

\* no news service and no frontline loader has been constructed
ServicesAbsent ==
    /\ now = 0
    /\ cache = None /\ isLoading = None /\ fetches = None /\ preloadTimer = None
    /\ occupiedTerritory = None /\ lastUpdate = None /\ error = None
    /\ isLoadingData = None /\ loads = None

----------------------------------------------------------------------------
(* GeoProjection: toCanvas / toLatLon for the view (z, px, py) *)

\* (a local value written as the one element of a set is computed by TLC
\* before the values that use it, as the statements of the code are)
toCanvas(lat, lon, z, px, py) ==
    LET centerX == RDiv(width, R(2))
        centerY == RDiv(height, R(2))
    IN  CHOOSE pos \in
            { [x |-> RAdd(RAdd(centerX, RMul(RSub(baseX, centerX), z)), px),
               y |-> RAdd(RAdd(centerY, RMul(RSub(baseY, centerY), z)), py)] :
                baseX \in { RMul(width, RDiv(RAdd(lon, R(180)), R(360))) },
                baseY \in { RMul(height, RDiv(RSub(R(90), lat), R(180))) } } :
            TRUE

\* toLatLon that forgets to take the pan off before unscaling
toLatLon_ignoresPan(canvasX, canvasY, z, px, py) ==
    LET centerX == RDiv(width, R(2))
        centerY == RDiv(height, R(2))
    IN  CHOOSE geo \in
            { [lat |-> RSub(R(90), RMul(RDiv(baseY, height), R(180))),
               lon |-> RSub(RMul(RDiv(baseX, width), R(360)), R(180))] :
                baseX \in { RAdd(RDiv(RSub(canvasX, centerX), z), centerX) },
                baseY \in { RAdd(RDiv(RSub(canvasY, centerY), z), centerY) } } :
            TRUE

toLatLon(canvasX, canvasY, z, px, py) ==
    LET centerX == RDiv(width, R(2))
        centerY == RDiv(height, R(2))
    IN  CHOOSE geo \in
            { [lat |-> RSub(R(90), RMul(RDiv(baseY, height), R(180))),
               lon |-> RSub(RMul(RDiv(baseX, width), R(360)), R(180))] :
                baseX \in { RAdd(RDiv(RSub(RSub(canvasX, px), centerX), z),
                                  centerX) },
                baseY \in { RAdd(RDiv(RSub(RSub(canvasY, py), centerY), z),
                                  centerY) } } :
            TRUE

----------------------------------------------------------------------------
(* ViewportController *)

maxPanX(z) == RDiv(RSub(RMul(width, z), width), R(2))
maxPanY(z) == RDiv(RSub(RMul(height, z), height), R(2))

\* constrainPan that clamps the x axis only
constrainPan_onlyX(z, px, py) ==
    CHOOSE pan \in
        { [panX |-> RMax(RNeg(mx), RMin(mx, px)), panY |-> py] :
            mx \in { maxPanX(z) } } :
        TRUE

\* constrainPan(): the clamped (panX, panY) for zoom z
constrainPan(z, px, py) ==
    CHOOSE pan \in
        { [panX |-> RMax(RNeg(mx), RMin(mx, px)),
           panY |-> RMax(RNeg(my), RMin(my, py))] :
            mx \in { maxPanX(z) }, my \in { maxPanY(z) } } :
        TRUE

\* newZoom without the upper clamp
newZoom_noMax(z, deltaY) ==
    LET zoomFactor == IF deltaY > 0 THEN zoomOutFactor ELSE zoomInFactor
    IN  RMax(minZoom, RMul(z, zoomFactor))

\* newZoom with an additive step of 0.1
newZoom_additive(z, deltaY) ==
    LET zoomStep == IF deltaY > 0 THEN Rat(-1, 10) ELSE Rat(1, 10)
    IN  RMax(minZoom, RMin(maxZoom, RAdd(z, zoomStep)))

\* newZoom of handleWheel
newZoom(z, deltaY) ==
    LET zoomFactor == IF deltaY > 0 THEN zoomOutFactor ELSE zoomInFactor
    IN  RMax(minZoom, RMin(maxZoom, RMul(z, zoomFactor)))

\* anchorPan that reads the point under the cursor after zoom has changed
anchorPan_lateLookup(mouseX, mouseY, z, nz, px, py) ==
    CHOOSE a \in
        { [panX |-> RAdd(px, RSub(R(mouseX), newPos.x)),
           panY |-> RAdd(py, RSub(R(mouseY), newPos.y))] :
            newPos \in { toCanvas(g.lat, g.lon, nz, px, py) :
                           g \in { toLatLon(R(mouseX), R(mouseY), nz, px, py) } } } :
        TRUE

\* the pan handleWheel computes to keep the cursor position stable, before
\* constrainPan
anchorPan(mouseX, mouseY, z, nz, px, py) ==
    CHOOSE a \in
        { [panX |-> RAdd(px, RSub(R(mouseX), newPos.x)),
           panY |-> RAdd(py, RSub(R(mouseY), newPos.y))] :
            newPos \in { toCanvas(g.lat, g.lon, nz, px, py) :
                           g \in { toLatLon(R(mouseX), R(mouseY), z, px, py) } } } :
        TRUE

\* the record of a call: method name, arguments (0 when the method has none)
\* and return value (None for undefined)
Call(name, mouseX, mouseY, deltaY, result) ==
    [op |-> name, mouseX |-> mouseX, mouseY |-> mouseY, deltaY |-> deltaY,
     ret |-> result]

\* handleWheel without the constrainPan() call
HandleWheel_noConstrain(deltaY, mouseX, mouseY) ==
    \E nz \in { newZoom(zoom, deltaY) } :
    \E a \in { anchorPan(mouseX, mouseY, zoom, nz, panX, panY) } :
        /\ IF nz # zoom
           THEN /\ nEvents < MaxEvents
                /\ zoom' = nz
                /\ panX' = a.panX
                /\ panY' = a.panY
                /\ nEvents' = nEvents + 1
           ELSE UNCHANGED <<zoom, panX, panY, nEvents>>
        /\ call' = Call("handleWheel", mouseX, mouseY, deltaY, TRUE)
        /\ UNCHANGED <<isDragging, dragStartX, dragStartY, lastPanX, lastPanY>>
        /\ UNCHANGED <<projVars, queryVars, labelVars, serviceVars>>

HandleWheel(deltaY, mouseX, mouseY) ==
    \E nz \in { newZoom(zoom, deltaY) } :
    \E a \in { anchorPan(mouseX, mouseY, zoom, nz, panX, panY) } :
    \E c \in { constrainPan(nz, a.panX, a.panY) } :
        /\ IF nz # zoom
           THEN /\ nEvents < MaxEvents
                /\ zoom' = nz
                /\ panX' = c.panX
                /\ panY' = c.panY
                /\ nEvents' = nEvents + 1
           ELSE UNCHANGED <<zoom, panX, panY, nEvents>>
        /\ call' = Call("handleWheel", mouseX, mouseY, deltaY, TRUE)
        /\ UNCHANGED <<isDragging, dragStartX, dragStartY, lastPanX, lastPanY>>
        /\ UNCHANGED <<projVars, queryVars, labelVars, serviceVars>>

\* handleMouseDown that does not record the current pan as reference
HandleMouseDown_noReference(mouseX, mouseY) ==
    /\ nEvents < MaxEvents
    /\ nEvents' = nEvents + 1
    /\ isDragging' = TRUE
    /\ dragStartX' = mouseX
    /\ dragStartY' = mouseY
    /\ call' = Call("handleMouseDown", mouseX, mouseY, 0, None)
    /\ UNCHANGED <<zoom, panX, panY, lastPanX, lastPanY>>
    /\ UNCHANGED <<projVars, queryVars, labelVars, serviceVars>>

HandleMouseDown(mouseX, mouseY) ==
    /\ nEvents < MaxEvents
    /\ nEvents' = nEvents + 1
    /\ isDragging' = TRUE
    /\ dragStartX' = mouseX
    /\ dragStartY' = mouseY
    /\ lastPanX' = panX
    /\ lastPanY' = panY
    /\ call' = Call("handleMouseDown", mouseX, mouseY, 0, None)
    /\ UNCHANGED <<zoom, panX, panY>>
    /\ UNCHANGED <<projVars, queryVars, labelVars, serviceVars>>

\* handleMouseMove that adds the drag offset to the current pan
HandleMouseMove_incremental(mouseX, mouseY) ==
    \E tx \in { RAdd(panX, R(mouseX - dragStartX)) } :
    \E ty \in { RAdd(panY, R(mouseY - dragStartY)) } :
    \E c \in { constrainPan(zoom, tx, ty) } :
        /\ IF isDragging
           THEN /\ panX' = c.panX
                /\ panY' = c.panY
                /\ call' = Call("handleMouseMove", mouseX, mouseY, 0, TRUE)
           ELSE /\ UNCHANGED <<panX, panY>>
                /\ call' = Call("handleMouseMove", mouseX, mouseY, 0, FALSE)
        /\ UNCHANGED <<zoom, isDragging, dragStartX, dragStartY,
                       lastPanX, lastPanY, nEvents>>
        /\ UNCHANGED <<projVars, queryVars, labelVars, serviceVars>>

\* handleMouseMove without the isDragging test
HandleMouseMove_alwaysPans(mouseX, mouseY) ==
    \E tx \in { RAdd(lastPanX, R(mouseX - dragStartX)) } :
    \E ty \in { RAdd(lastPanY, R(mouseY - dragStartY)) } :
    \E c \in { constrainPan(zoom, tx, ty) } :
        /\ panX' = c.panX
        /\ panY' = c.panY
        /\ call' = Call("handleMouseMove", mouseX, mouseY, 0, TRUE)
        /\ UNCHANGED <<zoom, isDragging, dragStartX, dragStartY,
                       lastPanX, lastPanY, nEvents>>
        /\ UNCHANGED <<projVars, queryVars, labelVars, serviceVars>>

HandleMouseMove(mouseX, mouseY) ==
    \E tx \in { RAdd(lastPanX, R(mouseX - dragStartX)) } :
    \E ty \in { RAdd(lastPanY, R(mouseY - dragStartY)) } :
    \E c \in { constrainPan(zoom, tx, ty) } :
        /\ IF isDragging
           THEN /\ panX' = c.panX
                /\ panY' = c.panY
                /\ call' = Call("handleMouseMove", mouseX, mouseY, 0, TRUE)
           ELSE /\ UNCHANGED <<panX, panY>>
                /\ call' = Call("handleMouseMove", mouseX, mouseY, 0, FALSE)
        /\ UNCHANGED <<zoom, isDragging, dragStartX, dragStartY,
                       lastPanX, lastPanY, nEvents>>
        /\ UNCHANGED <<projVars, queryVars, labelVars, serviceVars>>

HandleMouseUp ==
    /\ isDragging' = FALSE
    /\ call' = Call("handleMouseUp", 0, 0, 0, None)
    /\ UNCHANGED <<zoom, panX, panY, dragStartX, dragStartY,
                   lastPanX, lastPanY, nEvents>>
    /\ UNCHANGED <<projVars, queryVars, labelVars, serviceVars>>

\* resetView that leaves panY alone
ResetView_keepsPanY ==
    /\ zoom' = R(1)
    /\ panX' = R(0)
    /\ call' = Call("resetView", 0, 0, 0, None)
    /\ UNCHANGED <<panY, isDragging, dragStartX, dragStartY,
                   lastPanX, lastPanY, nEvents>>
    /\ UNCHANGED <<projVars, queryVars, labelVars, serviceVars>>

ResetView ==
    /\ zoom' = R(1)
    /\ panX' = R(0)
    /\ panY' = R(0)
    /\ call' = Call("resetView", 0, 0, 0, None)
    /\ UNCHANGED <<isDragging, dragStartX, dragStartY,
                   lastPanX, lastPanY, nEvents>>
    /\ UNCHANGED <<projVars, queryVars, labelVars, serviceVars>>

\* The renderer as left by the constructor, or as left by 34 wheel-in events
\* at the canvas centre after construction: 1.1^34 > 25 is clamped to maxZoom
\* and a cursor at the centre leaves the pan at 0.
Constructed(z) ==
    /\ zoom = z
    /\ panX = R(0) /\ panY = R(0)
    /\ isDragging = FALSE
    /\ dragStartX = 0 /\ dragStartY = 0
    /\ lastPanX = R(0) /\ lastPanY = R(0)
    /\ nEvents = 0
    /\ call = Call("constructor", 0, 0, 0, None)
    /\ geoIn = None /\ screenOut = None /\ screenIn = None /\ geoOut = None
    /\ countries = None /\ args = None /\ ctxCalls = None
    /\ conflictData = None /\ textMetrics = None
    /\ labelBoxes = <<>> /\ frames = <<>>
    /\ ServicesAbsent

Init == Constructed(R(1)) \/ Constructed(maxZoom)

Next ==
    \/ \E d \in DeltaYs, p \in WheelPoints : HandleWheel(d, p[1], p[2])
    \/ \E p \in MousePoints : HandleMouseDown(p[1], p[2])
    \/ \E p \in MousePoints : HandleMouseMove(p[1], p[2])
    \/ HandleMouseUp
    \/ ResetView

Spec == Init /\ [][Next]_vars

----------------------------------------------------------------------------
(* The projection as a pure function: view states and points drawn from      *)
(* samples, toCanvas and toLatLon applied to them                           *)

ZoomSamples == { minZoom, Rat(11, 10), Rat(7, 3), maxZoom }
PanSamples == { R(-100), Rat(-7, 2), R(0), Rat(3, 8) }
LatSamples == { R(-90), Rat(-91, 2), R(0), Rat(1, 3), R(90) }
LonSamples == { R(-180), R(-77), R(0), Rat(359, 2), R(180) }
ScreenSamples == { [x |-> R(0), y |-> R(0)], [x |-> R(3), y |-> Rat(5, 2)] }

CallToCanvas(lat, lon) ==
    /\ geoIn' = [lat |-> lat, lon |-> lon]
    /\ screenOut' = toCanvas(lat, lon, zoom, panX, panY)
    /\ call' = Call("toCanvas", 0, 0, 0, None)
    /\ screenIn' = None /\ geoOut' = None
    /\ UNCHANGED <<viewVars, nEvents, queryVars, labelVars, serviceVars>>

CallToLatLon(p) ==
    /\ screenIn' = p
    /\ geoOut' = toLatLon(p.x, p.y, zoom, panX, panY)
    /\ call' = Call("toLatLon", 0, 0, 0, None)
    /\ UNCHANGED <<geoIn, screenOut>>
    /\ UNCHANGED <<viewVars, nEvents, queryVars, labelVars, serviceVars>>

InitProj ==
    /\ zoom \in ZoomSamples
    /\ panX \in PanSamples /\ panY \in PanSamples
    /\ isDragging = FALSE
    /\ dragStartX = 0 /\ dragStartY = 0
    /\ lastPanX = R(0) /\ lastPanY = R(0)
    /\ nEvents = 0
    /\ call = Call("constructor", 0, 0, 0, None)
    /\ geoIn = None /\ screenOut = None /\ screenIn = None /\ geoOut = None
    /\ countries = None /\ args = None /\ ctxCalls = None
    /\ conflictData = None /\ textMetrics = None
    /\ labelBoxes = <<>> /\ frames = <<>>
    /\ ServicesAbsent

NextProj ==
    \/ \E lat \in LatSamples, lon \in LonSamples : CallToCanvas(lat, lon)
    \/ \E p \in ScreenSamples \cup (IF screenOut = None THEN {} ELSE {screenOut}) :
          CallToLatLon(p)

SpecProj == InitProj /\ [][NextProj]_vars

----------------------------------------------------------------------------
(* Properties *)

ClampTo(v, lo, hi) == IF RLt(v, lo) THEN lo ELSE IF RLt(hi, v) THEN hi ELSE v

HalfOverscanX == RDiv(RSub(RMul(R(CanvasWidth), zoom), R(CanvasWidth)), R(2))
HalfOverscanY == RDiv(RSub(RMul(R(CanvasHeight), zoom), R(CanvasHeight)), R(2))

\* the pan a mouse move to the position of the last call asks for, unclamped
DragTargetX == RAdd(lastPanX, R(call.mouseX - dragStartX))
DragTargetY == RAdd(lastPanY, R(call.mouseY - dragStartY))

\* C1: pan clamp invariant. In every reachable state
\* |panX| <= (width*zoom - width)/2 and |panY| <= (height*zoom - height)/2.
C1_PanClamp ==
    /\ RLe(RAbs(panX), HalfOverscanX)
    /\ RLe(RAbs(panY), HalfOverscanY)

\* a drag beyond the edge at zoom > 1 has been clamped to the bound
C1_Witness ==
    /\ call.op = "handleMouseMove" /\ call.ret = TRUE
    /\ RLt(R(1), zoom)
    /\ RLt(HalfOverscanX, DragTargetX)
    /\ panX = HalfOverscanX

\* C2: zoom range invariant. In every reachable state
\* minZoom <= zoom <= maxZoom (1 and 25), so zoom is strictly positive.
C2_ZoomRange ==
    /\ RLe(R(1), zoom)
    /\ RLe(zoom, R(25))
    /\ zoom[1] > 0 /\ zoom[2] > 0

\* a wheel-in event has left zoom at maxZoom away from the initial pan
C2_Witness ==
    /\ call.op = "handleWheel" /\ call.deltaY <= 0
    /\ zoom = R(25)
    /\ nEvents > 0
    /\ panX # R(0)

\* the cursor of the wheel call of a step, and where the point that was under
\* it before the step is projected after the step
WheelZooms == call'.op = "handleWheel" /\ zoom' # zoom
AnchorAfter ==
    CHOOSE q \in
        { toCanvas(g.lat, g.lon, zoom', panX', panY') :
            g \in { toLatLon(R(call'.mouseX), R(call'.mouseY), zoom, panX, panY) } } :
        TRUE
AnchorStable ==
    /\ AnchorAfter.x = R(call'.mouseX)
    /\ AnchorAfter.y = R(call'.mouseY)
AnchoredPan == anchorPan(call'.mouseX, call'.mouseY, zoom, zoom', panX, panY)
AnchoredPanInRange ==
    /\ RLe(RAbs(AnchoredPan.panX), RDiv(RSub(RMul(width, zoom'), width), R(2)))
    /\ RLe(RAbs(AnchoredPan.panY), RDiv(RSub(RMul(height, zoom'), height), R(2)))

\* C3 as stated: every wheel event that changes zoom leaves the geographic
\* point that was under the cursor at the cursor position (required here of
\* the cursors inside the canvas only, where it already fails).
C3_AnchorAlwaysStable ==
    [][(WheelZooms /\ InCanvas(call'.mouseX, call'.mouseY)) => AnchorStable]_vars

\* C3 as amended: a wheel event that changes zoom leaves the point that was
\* under the cursor at the cursor position exactly when the pan that anchors
\* it lies within the pan clamp range of the new zoom, which is always so for
\* a zoom-in with the cursor inside the canvas; otherwise the pan is clamped
\* and the point moves.
C3_AnchorStableUnlessClamped ==
    [][WheelZooms =>
          /\ AnchorStable <=> AnchoredPanInRange
          /\ (RLt(zoom, zoom') /\ InCanvas(call'.mouseX, call'.mouseY))
                => AnchorStable]_vars

\* a zoom-in at an off-centre cursor has moved the pan and kept the anchor:
\* the pan is the one that anchors the interior point of MousePoints
C3_Witness ==
    /\ call.op = "handleWheel" /\ call.deltaY <= 0
    /\ call.mouseX = CanvasWidth \div 4
    /\ zoom = Rat(11, 10)
    /\ panX = RMul(RSub(R(CanvasWidth \div 4), RDiv(R(CanvasWidth), R(2))),
                   Rat(-1, 10))
    /\ panX # R(0)

\* C4: projection round trip. toLatLon applied to the result of
\* toCanvas(lat, lon) in the same view state returns (lat, lon).
C4_RoundTrip ==
    (call.op = "toLatLon" /\ screenIn = screenOut) => geoOut = geoIn

\* a non-integral point has gone through a zoomed and panned view and back
C4_Witness ==
    /\ call.op = "toLatLon" /\ screenIn = screenOut
    /\ geoIn = [lat |-> Rat(1, 3), lon |-> Rat(359, 2)]
    /\ geoOut = geoIn
    /\ zoom = Rat(7, 3) /\ panX = Rat(-7, 2) /\ panY = Rat(3, 8)

\* C5: in every reachable state with zoom = minZoom, panX = 0 and panY = 0.
C5_NoPanAtMinZoom == zoom = R(1) => (panX = R(0) /\ panY = R(0))

\* a drag at minZoom, from a reference pan recorded at a larger zoom, has
\* left the pan at (0, 0)
C5_Witness ==
    /\ call.op = "handleMouseMove" /\ call.ret = TRUE
    /\ zoom = R(1) /\ panX = R(0) /\ panY = R(0)
    /\ lastPanX # R(0) /\ DragTargetX # R(0)

\* C6: while dragging, handleMouseMove(x, y) sets pan to the clamp of
\* lastPan + ((x, y) - dragStart) and returns true; dragStart and lastPan are
\* changed by handleMouseDown only, so they are the values the most recent
\* handleMouseDown recorded.
C6_DragMove ==
    [][/\ (call'.op = "handleMouseMove" /\ isDragging) =>
             /\ panX' = ClampTo(RAdd(lastPanX, R(call'.mouseX - dragStartX)),
                                RNeg(HalfOverscanX), HalfOverscanX)
             /\ panY' = ClampTo(RAdd(lastPanY, R(call'.mouseY - dragStartY)),
                                RNeg(HalfOverscanY), HalfOverscanY)
             /\ call'.ret = TRUE
       /\ call'.op # "handleMouseDown" =>
             UNCHANGED <<dragStartX, dragStartY, lastPanX, lastPanY>>]_vars

\* a drag move after the view was reset under the drag: the reference pan is
\* still the one of the mouse-down
C6_Witness ==
    /\ call.op = "handleMouseMove" /\ call.ret = TRUE
    /\ isDragging
    /\ zoom = R(1) /\ lastPanX # R(0)

\* C7: handleMouseDown leaves isDragging true, the drag anchor at the event
\* position and the reference pan at the current pan, zoom and pan unchanged;
\* handleMouseUp leaves isDragging false; no other operation changes
\* isDragging.
C7_DragStateMachine ==
    [][/\ call'.op = "handleMouseDown" =>
             /\ isDragging'
             /\ dragStartX' = call'.mouseX /\ dragStartY' = call'.mouseY
             /\ lastPanX' = panX /\ lastPanY' = panY
             /\ UNCHANGED <<zoom, panX, panY>>
       /\ call'.op = "handleMouseUp" => ~isDragging'
       /\ call'.op \notin {"handleMouseDown", "handleMouseUp"} =>
             UNCHANGED isDragging]_vars

\* a mouse-down on a panned view has recorded the pan and the position
C7_Witness ==
    /\ call.op = "handleMouseDown"
    /\ isDragging
    /\ dragStartX = call.mouseX /\ dragStartX # 0
    /\ lastPanX = panX /\ panX # R(0)

\* C8: when not dragging, handleMouseMove leaves zoom, pan and the drag
\* fields unchanged and returns false.
C8_IdleMove ==
    [][(call'.op = "handleMouseMove" /\ ~isDragging) =>
          /\ UNCHANGED viewVars
          /\ call'.ret = FALSE]_vars

\* an idle move that would have panned the view had a drag been in progress
C8_Witness ==
    /\ call.op = "handleMouseMove" /\ call.ret = FALSE
    /\ ~isDragging
    /\ RLt(R(1), zoom)
    /\ ClampTo(DragTargetX, RNeg(HalfOverscanX), HalfOverscanX) # panX

\* C9: handleWheel sets zoom to clamp(zoom * 0.9, minZoom, maxZoom) when
\* deltaY > 0 and to clamp(zoom * 1.1, minZoom, maxZoom) otherwise.
C9_WheelMultiplicative ==
    [][call'.op = "handleWheel" =>
          zoom' = ClampTo(RMul(zoom, IF call'.deltaY > 0 THEN Rat(9, 10)
                                                         ELSE Rat(11, 10)),
                          R(1), R(25))]_vars

\* two zoom-in steps from 1.0 give 1.21, not 1.2
C9_Witness ==
    /\ call.op = "handleWheel" /\ call.deltaY = 0
    /\ zoom = Rat(121, 100)

\* C10: resetView leaves zoom = 1.0 and pan = (0, 0), drag or no drag.
C10_ResetView ==
    call.op = "resetView" => (zoom = R(1) /\ panX = R(0) /\ panY = R(0))

\* a reset during a drag that started from a panned view
C10_Witness ==
    /\ call.op = "resetView"
    /\ isDragging /\ lastPanY # R(0)
    /\ zoom = R(1) /\ panX = R(0) /\ panY = R(0)

----------------------------------------------------------------------------
(* Rounded arithmetic                                                      *)
(*                                                                         *)
(* isPointInPolygon divides, and its result depends on how the quotient is *)
(* rounded, so its arithmetic is modelled as binary floating point: every  *)
(* operation is computed exactly and then rounded to the nearest value     *)
(* with MantissaBits significant bits, ties to even, as IEEE 754 does with *)
(* 53 bits.  The exponent range is not modelled.                           *)

MantissaBits == 8

RECURSIVE Pow2(_)
Pow2(k) == IF k = 0 THEN 1 ELSE 2 * Pow2(k - 1)

\* n / d > 0 scaled by a power of two into [2^(MantissaBits-1), 2^MantissaBits):
\* <<n', d', e>> with n / d = (n' / d') * 2^e
RECURSIVE FlNorm(_, _, _)
FlNorm(n, d, e) ==
    IF n >= d * Pow2(MantissaBits) THEN FlNorm(n, 2 * d, e + 1)
    ELSE IF n < d * Pow2(MantissaBits - 1) THEN FlNorm(2 * n, d, e - 1)
    ELSE <<n, d, e>>

RoundHalfEven(n, d) ==
    LET q == n \div d
        r == n % d
    IN  IF 2 * r < d THEN q
        ELSE IF 2 * r > d THEN q + 1
        ELSE IF q % 2 = 0 THEN q ELSE q + 1

Fl(a) ==
    IF a[1] = 0 THEN a
    ELSE CHOOSE f \in
            { IF a[1] < 0 THEN RNeg(mag) ELSE mag :
                mag \in { IF s[3] >= 0
                          THEN Rat(RoundHalfEven(s[1], s[2]) * Pow2(s[3]), 1)
                          ELSE Rat(RoundHalfEven(s[1], s[2]), Pow2(-s[3])) :
                              s \in { FlNorm(Abs(a[1]), a[2], 0) } } } :
            TRUE

FAdd(a, b) == Fl(RAdd(a, b))
FSub(a, b) == Fl(RSub(a, b))
FMul(a, b) == Fl(RMul(a, b))
FDiv(a, b) == Fl(RDiv(a, b))

----------------------------------------------------------------------------
(* SpatialQuery: point in polygon, country under the cursor                *)
(*                                                                         *)
(* A ring is a sequence of positions <<lon, lat>>, a Polygon's coordinates *)
(* a sequence of rings, a MultiPolygon's a sequence of such sequences.     *)

\* the test of one edge, from ring[j] = <<xj, yj>> to ring[i] = <<xi, yi>>
intersect(lat, lon, pi, pj) ==
    /\ RLt(lat, pi[2]) # RLt(lat, pj[2])
    /\ \E slope \in { FDiv(FMul(FSub(pj[1], pi[1]), FSub(lat, pi[2])),
                           FSub(pj[2], pi[2])) } :
          RLt(lon, FAdd(slope, pi[1]))

\* the loop of isPointInPolygon from index i on (1-based), j the previous index
RECURSIVE rayCast(_, _, _, _, _, _)
rayCast(lat, lon, ring, i, j, inside) ==
    IF i > Len(ring) THEN inside
    ELSE rayCast(lat, lon, ring, i + 1, i,
                 IF intersect(lat, lon, ring[i], ring[j])
                 THEN ~inside ELSE inside)

\* isPointInPolygon that subtracts the holes: even-odd over every ring
RECURSIVE isPointInPolygon_holes(_, _, _)
isPointInPolygon_holes(lat, lon, coordinates) ==
    IF coordinates = <<>> THEN FALSE
    ELSE rayCast(lat, lon, coordinates[1], 1, Len(coordinates[1]), FALSE)
            # isPointInPolygon_holes(lat, lon, Tail(coordinates))

isPointInPolygon(lat, lon, coordinates) ==
    rayCast(lat, lon, coordinates[1], 1, Len(coordinates[1]), FALSE)

\* isPointInCountry: a Polygon by its coordinates, a MultiPolygon by any of
\* its polygons, any other geometry type contains nothing
isPointInCountry(lat, lon, country) ==
    IF country.geometry.type = "Polygon"
    THEN isPointInPolygon(lat, lon, country.geometry.coordinates)
    ELSE IF country.geometry.type = "MultiPolygon"
    THEN \E k \in 1..Len(country.geometry.coordinates) :
            isPointInPolygon(lat, lon, country.geometry.coordinates[k])
    ELSE FALSE

\* the loop of getCountryAtPoint over features[k..]: the first that contains
\* the point, or null
\* the loop that keeps searching after a match: the last feature that contains
\* the point
RECURSIVE firstCountryFrom_lastMatch(_, _, _, _)
firstCountryFrom_lastMatch(lat, lon, features, k) ==
    IF k > Len(features) THEN None
    ELSE CHOOSE c \in
            { IF rest # None THEN rest
              ELSE IF isPointInCountry(lat, lon, features[k]) THEN features[k]
              ELSE None :
                  rest \in { firstCountryFrom_lastMatch(lat, lon, features, k + 1) } } :
            TRUE

RECURSIVE firstCountryFrom(_, _, _, _)
firstCountryFrom(lat, lon, features, k) ==
    IF k > Len(features) THEN None
    ELSE IF isPointInCountry(lat, lon, features[k]) THEN features[k]
    ELSE firstCountryFrom(lat, lon, features, k + 1)

getCountryAtPoint(mouseX, mouseY, z, px, py, features) ==
    IF features = None THEN None
    ELSE CHOOSE c \in { firstCountryFrom(geo.lat, geo.lon, features, 1) :
                          geo \in { toLatLon(mouseX, mouseY, z, px, py) } } : TRUE

----------------------------------------------------------------------------
(* SpatialQuery: distance to a segment, shipping lane under the cursor     *)

\* Math.sqrt(q), kept exact: the non-negative real whose square is q
sqrt(q) == [squared |-> q]

\* s < t for a square root s and a number t
SqrtLt(s, t) == RLt(R(0), t) /\ RLt(s.squared, RMul(t, t))

\* the distance to the line through the segment: the projection is not clamped
distanceToLineSegment_noClamp(px, py, x1, y1, x2, y2) ==
    LET dx == RSub(x2, x1)
        dy == RSub(y2, y1)
    IN  CHOOSE dist \in
            { IF lengthSquared = R(0)
              THEN sqrt(RAdd(RMul(RSub(px, x1), RSub(px, x1)),
                             RMul(RSub(py, y1), RSub(py, y1))))
              ELSE CHOOSE d \in
                     { sqrt(RAdd(RMul(RSub(px, nearestX), RSub(px, nearestX)),
                                 RMul(RSub(py, nearestY), RSub(py, nearestY)))) :
                         nearestX \in { RAdd(x1, RMul(t, dx)) },
                         nearestY \in { RAdd(y1, RMul(t, dy)) } } : TRUE :
                  lengthSquared \in { RAdd(RMul(dx, dx), RMul(dy, dy)) },
                  t \in { IF RAdd(RMul(dx, dx), RMul(dy, dy)) = R(0) THEN R(0)
                          ELSE RDiv(RAdd(RMul(RSub(px, x1), dx),
                                         RMul(RSub(py, y1), dy)),
                                    RAdd(RMul(dx, dx), RMul(dy, dy))) } } :
            TRUE

\* (t stands for 0 when the segment is a point, where the code does not
\* compute it)
distanceToLineSegment(px, py, x1, y1, x2, y2) ==
    LET dx == RSub(x2, x1)
        dy == RSub(y2, y1)
    IN  CHOOSE dist \in
            { IF lengthSquared = R(0)
              THEN sqrt(RAdd(RMul(RSub(px, x1), RSub(px, x1)),
                             RMul(RSub(py, y1), RSub(py, y1))))
              ELSE CHOOSE d \in
                     { sqrt(RAdd(RMul(RSub(px, nearestX), RSub(px, nearestX)),
                                 RMul(RSub(py, nearestY), RSub(py, nearestY)))) :
                         nearestX \in { RAdd(x1, RMul(t, dx)) },
                         nearestY \in { RAdd(y1, RMul(t, dy)) } } : TRUE :
                  lengthSquared \in { RAdd(RMul(dx, dx), RMul(dy, dy)) },
                  t \in { IF RAdd(RMul(dx, dx), RMul(dy, dy)) = R(0) THEN R(0)
                          ELSE RMax(R(0), RMin(R(1),
                                  RDiv(RAdd(RMul(RSub(px, x1), dx),
                                            RMul(RSub(py, y1), dy)),
                                       RAdd(RMul(dx, dx), RMul(dy, dy))))) } } :
            TRUE

\* a position [lat, lon] of a lane, given in tenths of a degree
LatLon(lat10, lon10) == << Rat(lat10, 10), Rat(lon10, 10) >>

\* getShippingLaneData, reduced to four of its twelve lanes, in its order, and
\* to the part of each lane around the strait of Gibraltar (the two positions
\* of the transpacific lane off Japan): the ids and the coords
getShippingLaneData ==
    << [id |-> "suez-canal",
        coords |-> << LatLon(350, -60), LatLon(360, 0), LatLon(370, 100) >>],
       [id |-> "transatlantic-south",
        coords |-> << LatLon(300, -250), LatLon(340, -100), LatLon(355, -60) >>],
       [id |-> "transpacific-west",
        coords |-> << LatLon(350, 1300), LatLon(350, 1400) >>],
       [id |-> "bosphorus-mediterranean",
        coords |-> << LatLon(370, 110), LatLon(375, 50), LatLon(365, 0) >>] >>

\* the hover threshold that does not shrink as the map is zoomed in
threshold_unscaled(z) == R(3)

threshold(z) == RDiv(R(3), z)

\* the inner loop of getShippingLaneAtPoint: some segment of the lane is
\* nearer than the threshold
laneIsNear(lat, lon, lane, z) ==
    \E i \in 1..(Len(lane.coords) - 1) :
        SqrtLt(distanceToLineSegment(lat, lon,
                                     lane.coords[i][1], lane.coords[i][2],
                                     lane.coords[i + 1][1], lane.coords[i + 1][2]),
               threshold(z))

\* the outer loop of getShippingLaneAtPoint over lanes[k..]
RECURSIVE firstLaneFrom(_, _, _, _, _)
firstLaneFrom(lat, lon, lanes, k, z) ==
    IF k > Len(lanes) THEN None
    ELSE IF laneIsNear(lat, lon, lanes[k], z) THEN lanes[k]
    ELSE firstLaneFrom(lat, lon, lanes, k + 1, z)

getShippingLaneAtPoint(mouseX, mouseY, z, px, py) ==
    CHOOSE lane \in { firstLaneFrom(geo.lat, geo.lon, getShippingLaneData, 1, z) :
                         geo \in { toLatLon(mouseX, mouseY, z, px, py) } } : TRUE

----------------------------------------------------------------------------
(* Specification of the spatial queries: the renderer at a sampled view    *)
(* with sampled countries; each action is one call of a query method.      *)

MaxCoord == 11

Pt(x, y) == <<R(x), R(y)>>

SquareRing == << Pt(0, 0), Pt(0, 10), Pt(10, 10), Pt(10, 0) >>
HoleRing == << Pt(4, 4), Pt(4, 6), Pt(6, 6), Pt(6, 4) >>
TriangleRing == << Pt(0, 0), Pt(9, 3), Pt(3, 9) >>
EmptyRing == << >>
PointRing == << Pt(2, 2) >>
SegmentRing == << Pt(0, 0), Pt(1, 3) >>

PolygonSamples ==
    { <<SquareRing>>, <<SquareRing, HoleRing>>, <<TriangleRing>>,
      <<TriangleRing, SquareRing>>, <<EmptyRing>>, <<PointRing>>,
      <<SegmentRing>>, <<SegmentRing, SquareRing>>, <<EmptyRing, SquareRing>> }

\* the query points <<lon, lat>>: a grid around the sampled rings, a far point,
\* and the two roundings of the point of SegmentRing at latitude 1
QueryPoints ==
    { Pt(x, y) : x \in -1..MaxCoord, y \in -1..MaxCoord }
        \cup { Pt(15, 15),
               << Fl(Rat(1, 3)), R(1) >>,
               << FSub(R(1), Fl(Rat(2, 3))), R(1) >> }

\* sampled features, in degrees: the ring of a box, a triangle
Box(lon1, lat1, lon2, lat2) ==
    << Pt(lon1, lat1), Pt(lon1, lat2), Pt(lon2, lat2), Pt(lon2, lat1) >>

Feature(name, type, coordinates) ==
    [name |-> name, geometry |-> [type |-> type, coordinates |-> coordinates]]

West == Feature("West", "Polygon", << Box(-170, -80, -10, 80) >>)
Isles == Feature("Isles", "MultiPolygon",
                 << << Box(100, -60, 170, 0) >>, << Box(-100, 10, 60, 60) >> >>)
Wedge == Feature("Wedge", "Polygon",
                 << << Pt(-170, -80), Pt(170, -80), Pt(0, 80) >>,
                    Box(-20, -40, 20, 0) >>)
Capital == Feature("Capital", "Point", Pt(-135, 45))

\* (None is this.countries before the countries are loaded)
CountrySamples ==
    { None, << West, Isles, Wedge >>, << Wedge, Isles, West >>,
      << Capital, Isles >> }

QueryViews == { << minZoom, R(0), R(0) >>, << R(4), R(3), R(-2) >> }

\* the cursor positions of a hit test: the pixels of the canvas
CursorCalls(fn) ==
    { [fn |-> fn, mouseX |-> x, mouseY |-> y] :
        x \in 0..CanvasWidth, y \in 0..CanvasHeight }

\* sampled views of a lane hover, and the points (in tenths of a degree) the
\* cursor is put over: on and beside lanes that run close to each other, at
\* 3, 2, 1 and 1/2 degrees from a lane, and far from every lane
LaneViews == QueryViews \cup { << maxZoom, R(0), R(0) >> }

LaneTargets ==
    { LatLon(360, 0), LatLon(365, 5), LatLon(350, -65), LatLon(340, -100),
      LatLon(380, 1350), LatLon(370, 1350), LatLon(360, 1350),
      LatLon(355, 1350), LatLon(0, 0) }

LaneCalls(v) ==
    { [fn |-> "getShippingLaneAtPoint", mouseX |-> c.x, mouseY |-> c.y] :
        c \in { toCanvas(t[1], t[2], v[1], v[2], v[3]) : t \in LaneTargets } }

\* the arguments of a pending isPointInPolygon(lat, lon, coordinates)
PolygonCalls ==
    { [fn |-> "isPointInPolygon", lat |-> p[2], lon |-> p[1], coordinates |-> c] :
        p \in QueryPoints, c \in PolygonSamples }

\* sampled segments <<x1, y1, x2, y2>> and points for distanceToLineSegment
SegmentSamples ==
    { << 0, 0, 10, 0 >>, << 3, 3, 3, 3 >>, << 0, 0, 4, 3 >>, << 2, -1, -2, 5 >>,
      << 7, 7, 6, 1 >> }

SegmentCalls ==
    { [fn |-> "distanceToLineSegment", px |-> R(x), py |-> R(y),
       x1 |-> R(s[1]), y1 |-> R(s[2]), x2 |-> R(s[3]), y2 |-> R(s[4])] :
        x \in -5..MaxCoord, y \in -5..MaxCoord, s \in SegmentSamples }

\* no query has been answered yet
Pending(fn) == args # None /\ args.fn = fn /\ call.op = "constructor"

CallIsPointInPolygon ==
    /\ Pending("isPointInPolygon")
    /\ call' = Call("isPointInPolygon", 0, 0, 0,
                    isPointInPolygon(args.lat, args.lon, args.coordinates))
    /\ UNCHANGED <<viewVars, nEvents, projVars, queryVars, labelVars, serviceVars>>

CallGetCountryAtPoint ==
    /\ Pending("getCountryAtPoint")
    /\ call' = Call("getCountryAtPoint", args.mouseX, args.mouseY, 0,
                    getCountryAtPoint(R(args.mouseX), R(args.mouseY),
                                      zoom, panX, panY, countries))
    /\ UNCHANGED <<viewVars, nEvents, projVars, queryVars, labelVars, serviceVars>>

CallDistanceToLineSegment ==
    /\ Pending("distanceToLineSegment")
    /\ call' = Call("distanceToLineSegment", 0, 0, 0,
                    distanceToLineSegment(args.px, args.py, args.x1, args.y1,
                                          args.x2, args.y2))
    /\ UNCHANGED <<viewVars, nEvents, projVars, queryVars, labelVars, serviceVars>>

CallGetShippingLaneAtPoint ==
    /\ Pending("getShippingLaneAtPoint")
    /\ call' = Call("getShippingLaneAtPoint", args.mouseX, args.mouseY, 0,
                    getShippingLaneAtPoint(args.mouseX, args.mouseY,
                                           zoom, panX, panY))
    /\ UNCHANGED <<viewVars, nEvents, projVars, queryVars, labelVars, serviceVars>>

\* the renderer at the view v with the features loaded, about to answer the
\* query a
QueryState(v, features, a) ==
    /\ zoom = v[1] /\ panX = v[2] /\ panY = v[3]
    /\ isDragging = FALSE
    /\ dragStartX = 0 /\ dragStartY = 0
    /\ lastPanX = R(0) /\ lastPanY = R(0)
    /\ nEvents = 0
    /\ call = Call("constructor", 0, 0, 0, None)
    /\ geoIn = None /\ screenOut = None /\ screenIn = None /\ geoOut = None
    /\ countries = features
    /\ args = a /\ ctxCalls = None
    /\ conflictData = None /\ textMetrics = None
    /\ labelBoxes = <<>> /\ frames = <<>>
    /\ ServicesAbsent

InitQuery ==
    \/ \E a \in PolygonCalls : QueryState(<<minZoom, R(0), R(0)>>, None, a)
    \/ \E a \in SegmentCalls : QueryState(<<minZoom, R(0), R(0)>>, None, a)
    \/ \E v \in QueryViews, f \in CountrySamples :
          \E a \in CursorCalls("getCountryAtPoint") : QueryState(v, f, a)
    \/ \E v \in LaneViews : \E a \in LaneCalls(v) : QueryState(v, None, a)

NextQuery ==
    \/ CallIsPointInPolygon
    \/ CallGetCountryAtPoint
    \/ CallDistanceToLineSegment
    \/ CallGetShippingLaneAtPoint

SpecQuery == InitQuery /\ [][NextQuery]_vars

----------------------------------------------------------------------------
(* Properties of the spatial queries *)

\* the longitude of the edge ring[j] -> ring[i] at latitude lat, as computed
EdgeLon(pi, pj, lat) ==
    FAdd(FDiv(FMul(FSub(pj[1], pi[1]), FSub(lat, pi[2])), FSub(pj[2], pi[2])),
         pi[1])

\* the edge ending at ring[i] is counted for the point (lat, lon)
EdgeCounted(ring, i, lat, lon) ==
    LET pi == ring[i]
        pj == ring[IF i = 1 THEN Len(ring) ELSE i - 1]
    IN  /\ RLt(lat, pi[2]) # RLt(lat, pj[2])
        /\ RLt(lon, EdgeLon(pi, pj, lat))

\* C11: isPointInPolygon returns the parity of the number of counted edges of
\* the first ring, whatever rings follow it: an edge is counted when exactly
\* one endpoint has a latitude greater than the point's and the point's
\* longitude is less than the edge's at that latitude.  The square
\* (0,0),(0,10),(10,10),(10,0) contains (5,5) and not (15,15).
C11_EvenOddOuterRing ==
    call.op = "isPointInPolygon" =>
        LET ring == args.coordinates[1]
            crossings == { i \in 1..Len(ring) :
                             EdgeCounted(ring, i, args.lat, args.lon) }
        IN  /\ call.ret = (Cardinality(crossings) % 2 = 1)
            /\ (ring = SquareRing /\ args.lat = R(5) /\ args.lon = R(5))
                  => call.ret = TRUE
            /\ (ring = SquareRing /\ args.lat = R(15) /\ args.lon = R(15))
                  => call.ret = FALSE

\* the point (5,5), in the hole of the square, is found inside
C11_Witness ==
    /\ call.op = "isPointInPolygon"
    /\ args.coordinates = <<SquareRing, HoleRing>>
    /\ args.lat = R(5) /\ args.lon = R(5)
    /\ call.ret = TRUE

\* the point under the cursor of the last hit test
CursorGeo == toLatLon(R(call.mouseX), R(call.mouseY), zoom, panX, panY)

\* the feature f has a polygon part that contains the point under the cursor
SomePartContains(f) ==
    \/ /\ f.geometry.type = "Polygon"
       /\ isPointInPolygon(CursorGeo.lat, CursorGeo.lon, f.geometry.coordinates)
    \/ /\ f.geometry.type = "MultiPolygon"
       /\ \E k \in 1..Len(f.geometry.coordinates) :
             isPointInPolygon(CursorGeo.lat, CursorGeo.lon,
                              f.geometry.coordinates[k])

\* the positions in this.countries of the features that contain the point
Hits ==
    IF countries = None THEN {}
    ELSE { k \in 1..Len(countries) : SomePartContains(countries[k]) }

\* C12: getCountryAtPoint returns the first feature, in list order, one of
\* whose polygon parts contains the point under the cursor, and null when
\* there is none or the countries are not loaded.
C12_FirstContainingFeature ==
    call.op = "getCountryAtPoint" =>
        IF Hits = {} THEN call.ret = None
        ELSE \E k \in Hits :
                /\ \A h \in Hits : k <= h
                /\ call.ret = countries[k]

\* a MultiPolygon found by its second part, before a later feature that
\* contains the point too
C12_Witness ==
    /\ call.op = "getCountryAtPoint"
    /\ countries = << West, Isles, Wedge >>
    /\ call.ret = Isles
    /\ Hits = {2, 3}
    /\ ~isPointInPolygon(CursorGeo.lat, CursorGeo.lon,
                         Isles.geometry.coordinates[1])

\* C13: for an outer ring of 0, 1 or 2 points isPointInPolygon returns false
\* for every query point.
C13_DegenerateRingOutside ==
    (call.op = "isPointInPolygon" /\ Len(args.coordinates[1]) <= 2)
        => call.ret = FALSE

\* the square of the distance between (px, py) and (x, y)
DistSq(px, py, x, y) ==
    RAdd(RMul(RSub(px, x), RSub(px, x)), RMul(RSub(py, y), RSub(py, y)))

\* the point of the segment of the last call at the parameter u
SegmentAt(u) ==
    << RAdd(args.x1, RMul(u, RSub(args.x2, args.x1))),
       RAdd(args.y1, RMul(u, RSub(args.y2, args.y1))) >>

\* the projection parameter of the point on the segment of the last call
ProjectionParameter ==
    RDiv(RAdd(RMul(RSub(args.px, args.x1), RSub(args.x2, args.x1)),
              RMul(RSub(args.py, args.y1), RSub(args.y2, args.y1))),
         DistSq(args.x1, args.y1, args.x2, args.y2))

SegmentCall(x1, y1, x2, y2, px, py) ==
    /\ args.x1 = R(x1) /\ args.y1 = R(y1) /\ args.x2 = R(x2) /\ args.y2 = R(y2)
    /\ args.px = R(px) /\ args.py = R(py)

\* parameters along the segment at which the distance is compared
ParameterGrid == { Rat(k, 8) : k \in 0..8 }

\* C14: distanceToLineSegment returns the distance from the point to the
\* point of the segment at the projection parameter clamped to [0,1], which
\* no point of the segment is nearer than; for a segment of one point the
\* distance to that point.  (0,0)-(10,0): 5 for (5,5) and for (-5,0);
\* (3,3)-(3,3): 4 for (3,7).
C14_DistanceToSegment ==
    call.op = "distanceToLineSegment" =>
        /\ IF args.x1 = args.x2 /\ args.y1 = args.y2
           THEN call.ret.squared = DistSq(args.px, args.py, args.x1, args.y1)
           ELSE LET n == SegmentAt(ClampTo(ProjectionParameter, R(0), R(1)))
                IN  call.ret.squared = DistSq(args.px, args.py, n[1], n[2])
        /\ \A u \in ParameterGrid :
              RLe(call.ret.squared,
                  DistSq(args.px, args.py, SegmentAt(u)[1], SegmentAt(u)[2]))
        /\ SegmentCall(0, 0, 10, 0, 5, 5) => call.ret = sqrt(R(25))
        /\ SegmentCall(0, 0, 10, 0, -5, 0) => call.ret = sqrt(R(25))
        /\ SegmentCall(3, 3, 3, 3, 3, 7) => call.ret = sqrt(R(16))

\* a point beyond an end of a slanted segment: the parameter is clamped
C14_Witness ==
    /\ call.op = "distanceToLineSegment"
    /\ args.x1 # args.x2 /\ args.y1 # args.y2
    /\ RLt(R(1), ProjectionParameter)
    /\ call.ret.squared = DistSq(args.px, args.py, args.x2, args.y2)
    /\ call.ret.squared # R(0)

\* the point under the cursor of the last lane hover
HoverGeo == toLatLon(call.mouseX, call.mouseY, zoom, panX, panY)

\* the square of the distance from the hovered point to the segment from a
\* to b (positions <<lat, lon>>)
HoverDistSq(a, b) ==
    IF a = b THEN DistSq(HoverGeo.lat, HoverGeo.lon, a[1], a[2])
    ELSE LET u == ClampTo(RDiv(RAdd(RMul(RSub(HoverGeo.lat, a[1]), RSub(b[1], a[1])),
                                    RMul(RSub(HoverGeo.lon, a[2]), RSub(b[2], a[2]))),
                               DistSq(a[1], a[2], b[1], b[2])),
                          R(0), R(1))
         IN  DistSq(HoverGeo.lat, HoverGeo.lon,
                    RAdd(a[1], RMul(u, RSub(b[1], a[1]))),
                    RAdd(a[2], RMul(u, RSub(b[2], a[2]))))

\* the positions in the lane list of the lanes with a segment nearer to the
\* hovered point than 3 / zoom
LaneHits ==
    { k \in 1..Len(getShippingLaneData) :
        \E i \in 1..(Len(getShippingLaneData[k].coords) - 1) :
            RLt(HoverDistSq(getShippingLaneData[k].coords[i],
                            getShippingLaneData[k].coords[i + 1]),
                RMul(RDiv(R(3), zoom), RDiv(R(3), zoom))) }

----------------------------------------------------------------------------
(* LabelLayout: drawCities and drawBattleZones                             *)
(*                                                                         *)
(* conflictData is a record of majorCities, a sequence of cities           *)
(* [name, lat, lon, strategic], and activeConflicts, a sequence of         *)
(* conflicts, each the sequence of the battle zones                        *)
(* [name, center, importance, activityLevel] of its territories, in order. *)
(* Of the calls on this.ctx the fillText calls are kept.                   *)

\* Math.sqrt(this.zoom), for the sampled zooms, whose roots are rational
sqrtZoom(z) ==
    CHOOSE r \in { Rat(n, 2) : n \in 0..(2 * maxZoom[1]) } : RMul(r, r) = z

\* "Only draw if on screen"
offScreen(x, y) ==
    \/ RLt(x, R(-50)) \/ RLt(RAdd(width, R(50)), x)
    \/ RLt(y, R(-50)) \/ RLt(RAdd(height, R(50)), y)

\* the test inside labelBoxes.some(...)
overlaps(box, existing) ==
    /\ RLt(box.x, RAdd(existing.x, existing.width))
    /\ RLt(existing.x, RAdd(box.x, box.width))
    /\ RLt(box.y, RAdd(existing.y, existing.height))
    /\ RLt(existing.y, RAdd(box.y, box.height))

\* the collision test against the box added last only
hasCollision_lastOnly(box, boxes) ==
    boxes # << >> /\ overlaps(box, boxes[Len(boxes)])

hasCollision(box, boxes) == \E k \in 1..Len(boxes) : overlaps(box, boxes[k])

\* the box of the label at the offset pos of the marker (x, y)
candidateBox(x, y, pos, textWidth, textHeight) ==
    [x |-> RSub(RAdd(x, pos.dx), R(2)),
     y |-> RSub(RAdd(y, pos.dy), textHeight),
     width |-> RAdd(textWidth, R(4)),
     height |-> RAdd(textHeight, R(4))]

\* the search that keeps the last position without a collision
RECURSIVE bestPosFrom_lastFree(_, _, _, _, _, _, _)
bestPosFrom_lastFree(x, y, positions, k, textWidth, textHeight, boxes) ==
    IF k > Len(positions) THEN 0
    ELSE CHOOSE best \in
            { IF later # 0 THEN later
              ELSE IF hasCollision(candidateBox(x, y, positions[k],
                                                textWidth, textHeight), boxes)
              THEN 0 ELSE k :
                  later \in { bestPosFrom_lastFree(x, y, positions, k + 1,
                                                   textWidth, textHeight, boxes) } } :
            TRUE

\* the loop over positions from index k on: the index of bestPos, 0 for null
RECURSIVE bestPosFrom(_, _, _, _, _, _, _)
bestPosFrom(x, y, positions, k, textWidth, textHeight, boxes) ==
    IF k > Len(positions) THEN 0
    ELSE IF hasCollision(candidateBox(x, y, positions[k], textWidth, textHeight),
                         boxes)
    THEN bestPosFrom(x, y, positions, k + 1, textWidth, textHeight, boxes)
    ELSE k

fillText(text, x, y) == [text |-> text, x |-> x, y |-> y]

\* ConflictZonesData.getVisibleCities
getVisibleCities(data, z) ==
    IF RLt(z, R(2)) THEN << >>
    ELSE IF RLt(z, R(3)) THEN SelectSeq(data.majorCities, LAMBDA c : c.strategic)
    ELSE data.majorCities

cityFontSize(z) == RMax(R(6), RMin(R(10), RAdd(R(6), RMul(z, Rat(3, 10)))))

cityPositions(textWidth, textHeight) ==
    << [dx |-> R(4), dy |-> R(-2)],
       [dx |-> R(4), dy |-> RAdd(textHeight, R(2))],
       [dx |-> RSub(RNeg(textWidth), R(4)), dy |-> R(-2)],
       [dx |-> RSub(RNeg(textWidth), R(4)), dy |-> RAdd(textHeight, R(2))] >>

\* drawCities that draws the label at the first position when every position
\* collides
drawCity_forced(city, z, px, py, metrics, out) ==
    CHOOSE next \in
      { IF offScreen(p.x, p.y) THEN out
        ELSE IF ~((city.strategic /\ RLt(R(3), z)) \/ (~city.strategic /\ RLt(R(4), z)))
        THEN out
        ELSE CHOOSE placed \in
               { IF FALSE THEN out
                 ELSE [boxes |-> Append(out.boxes,
                                        candidateBox(p.x, p.y,
                                            cityPositions(metrics[city.name],
                                                          cityFontSize(z))[IF best = 0 THEN 1 ELSE best],
                                            metrics[city.name], cityFontSize(z))),
                       calls |-> Append(out.calls,
                                        fillText(city.name,
                                            RAdd(p.x, cityPositions(metrics[city.name],
                                                          cityFontSize(z))[IF best = 0 THEN 1 ELSE best].dx),
                                            RAdd(p.y, cityPositions(metrics[city.name],
                                                          cityFontSize(z))[IF best = 0 THEN 1 ELSE best].dy)))] :
                   best \in { bestPosFrom(p.x, p.y,
                                          cityPositions(metrics[city.name],
                                                        cityFontSize(z)),
                                          1, metrics[city.name], cityFontSize(z),
                                          out.boxes) } } : TRUE :
          p \in { toCanvas(city.lat, city.lon, z, px, py) } } : TRUE

\* the body of cities.forEach for one city: the lists after it
drawCity(city, z, px, py, metrics, out) ==
    CHOOSE next \in
      { IF offScreen(p.x, p.y) THEN out
        ELSE IF ~((city.strategic /\ RLt(R(3), z)) \/ (~city.strategic /\ RLt(R(4), z)))
        THEN out
        ELSE CHOOSE placed \in
               { IF best = 0 THEN out
                 ELSE [boxes |-> Append(out.boxes,
                                        candidateBox(p.x, p.y,
                                            cityPositions(metrics[city.name],
                                                          cityFontSize(z))[best],
                                            metrics[city.name], cityFontSize(z))),
                       calls |-> Append(out.calls,
                                        fillText(city.name,
                                            RAdd(p.x, cityPositions(metrics[city.name],
                                                          cityFontSize(z))[best].dx),
                                            RAdd(p.y, cityPositions(metrics[city.name],
                                                          cityFontSize(z))[best].dy)))] :
                   best \in { bestPosFrom(p.x, p.y,
                                          cityPositions(metrics[city.name],
                                                        cityFontSize(z)),
                                          1, metrics[city.name], cityFontSize(z),
                                          out.boxes) } } : TRUE :
          p \in { toCanvas(city.lat, city.lon, z, px, py) } } : TRUE

\* cities.forEach from index k on
RECURSIVE drawCitiesFrom(_, _, _, _, _, _, _)
drawCitiesFrom(cities, k, z, px, py, metrics, out) ==
    IF k > Len(cities) THEN out
    ELSE CHOOSE r \in
            { drawCitiesFrom(cities, k + 1, z, px, py, metrics, next) :
                next \in { drawCity(cities[k], z, px, py, metrics, out) } } : TRUE

\* drawCities: the returned list (the argument, appended to) and the text drawn
drawCities(data, boxes, z, px, py, metrics) ==
    IF data = None THEN [boxes |-> boxes, calls |-> << >>]
    ELSE drawCitiesFrom(getVisibleCities(data, z), 1, z, px, py, metrics,
                        [boxes |-> boxes, calls |-> << >>])

\* importanceOrder[zone.importance] || 1  (0 and undefined are falsy)
importanceOrder(importance) ==
    LET order == CASE importance = "low" -> 0
                   [] importance = "medium" -> 1
                   [] importance = "high" -> 2
                   [] OTHER -> 0
    IN  IF order = 0 THEN 1 ELSE order

\* zone.importance || 'medium'
importanceOf(zone) ==
    IF zone.importance = "undefined" THEN "medium" ELSE zone.importance

\* ConflictZonesData.getVisibleBattleZones: copies of the zones to show
getVisibleBattleZones(z, conflict) ==
    IF RLt(z, Rat(5, 2)) THEN << >>
    ELSE SelectSeq(conflict,
                   LAMBDA zone :
                       \/ importanceOf(zone) = "high" /\ RLe(Rat(5, 2), z)
                       \/ importanceOf(zone) = "medium" /\ RLe(Rat(7, 2), z)
                       \/ importanceOf(zone) = "low" /\ RLe(R(5), z)
                       \/ zone.activityLevel = "hot" /\ RLe(R(3), z))

\* allZones before the sort: the visible zones of conflicts[k..]
RECURSIVE allZonesFrom(_, _, _)
allZonesFrom(conflicts, k, z) ==
    IF k > Len(conflicts) THEN << >>
    ELSE getVisibleBattleZones(z, conflicts[k]) \o allZonesFrom(conflicts, k + 1, z)

\* allZones.sort(...): stable, by importanceOrder
sortByImportance(zones) ==
    SelectSeq(zones, LAMBDA zone : importanceOrder(zone.importance) = 1)
        \o SelectSeq(zones, LAMBDA zone : importanceOrder(zone.importance) = 2)

RECURSIVE reverse(_)
reverse(s) == IF s = << >> THEN << >> ELSE Append(reverse(Tail(s)), Head(s))

\* zone._markerSize
markerSizeOf(zone, z) ==
    LET baseSize == IF importanceOf(zone) = "high" THEN R(4)
                    ELSE IF importanceOf(zone) = "medium" THEN R(3)
                    ELSE R(2)
    IN  RMax(R(2), RMul(RMul(baseSize, sqrtZoom(z)), Rat(1, 2)))

\* the first pass gives a zone its _screenX, _screenY when it is on screen
zoneOnScreen(zone, z, px, py) ==
    \E p \in { toCanvas(zone.center[1], zone.center[2], z, px, py) } :
        ~offScreen(p.x, p.y)

\* the zones of the second pass, in its order
labelZonesOf(data, z, px, py) ==
    reverse(SelectSeq(sortByImportance(allZonesFrom(data.activeConflicts, 1, z)),
                      LAMBDA zone : zoneOnScreen(zone, z, px, py)))

zoneShowLabel(zone, z) ==
    \/ importanceOf(zone) = "high" /\ RLt(Rat(7, 2), z)
    \/ importanceOf(zone) = "medium" /\ RLt(R(6), z)
    \/ importanceOf(zone) = "low" /\ RLt(R(10), z)

zoneFontSize(z) == RMax(R(7), RMin(R(14), RAdd(R(6), RMul(z, Rat(2, 5)))))

zonePositions(markerSize, textWidth, textHeight) ==
    << [dx |-> RAdd(markerSize, R(4)), dy |-> R(3)],
       [dx |-> RAdd(markerSize, R(4)), dy |-> RNeg(textHeight)],
       [dx |-> RSub(RNeg(textWidth), R(4)), dy |-> R(3)],
       [dx |-> RSub(RNeg(textWidth), R(4)), dy |-> RNeg(textHeight)],
       [dx |-> RAdd(markerSize, R(4)), dy |-> RAdd(textHeight, R(6))] >>

\* the status line (a bullet and ACTIVE) is drawn under the label
zoneShowStatus(zone, z) ==
    importanceOf(zone) = "high" /\ RLt(R(8), z) /\ zone.activityLevel = "hot"

\* the label of a zone drawn at the position pos (labelX - x, labelY - y) with
\* the box of that position: the lists after it
zoneLabelDrawn(zone, z, p, pos, textWidth, fontSize, out) ==
    CHOOSE next \in
      { [boxes |-> Append(out.boxes,
                          IF zoneShowStatus(zone, z)
                          THEN [box EXCEPT !.height =
                                   RAdd(box.height, RAdd(fontSize, R(4)))]
                          ELSE box),
         calls |-> IF zoneShowStatus(zone, z)
                   THEN out.calls \o
                        << fillText(zone.name, RAdd(p.x, pos.dx), RAdd(p.y, pos.dy)),
                           fillText("ACTIVE", RAdd(p.x, pos.dx),
                                    RAdd(RAdd(p.y, pos.dy), RAdd(fontSize, R(2)))) >>
                   ELSE Append(out.calls,
                               fillText(zone.name, RAdd(p.x, pos.dx),
                                        RAdd(p.y, pos.dy)))] :
          box \in { candidateBox(p.x, p.y, pos, textWidth, fontSize) } } : TRUE

\* the label pass that draws a zone of any importance at the first position
\* when every position collides
drawZoneLabel_alwaysForced(zone, z, px, py, metrics, out) ==
    IF ~zoneShowLabel(zone, z) THEN out
    ELSE CHOOSE next \in
      { IF best # 0
        THEN zoneLabelDrawn(zone, z, p,
                            zonePositions(markerSizeOf(zone, z), metrics[zone.name],
                                          zoneFontSize(z))[best],
                            metrics[zone.name], zoneFontSize(z), out)
        ELSE zoneLabelDrawn(zone, z, p,
                            [dx |-> RAdd(markerSizeOf(zone, z), R(4)), dy |-> R(3)],
                            metrics[zone.name], zoneFontSize(z), out) :
          p \in { toCanvas(zone.center[1], zone.center[2], z, px, py) },
          best \in { bestPosFrom(toCanvas(zone.center[1], zone.center[2], z, px, py).x,
                                 toCanvas(zone.center[1], zone.center[2], z, px, py).y,
                                 zonePositions(markerSizeOf(zone, z),
                                               metrics[zone.name], zoneFontSize(z)),
                                 1, metrics[zone.name], zoneFontSize(z),
                                 out.boxes) } } : TRUE

\* the body of labelZones.forEach for one zone: the lists after it
drawZoneLabel(zone, z, px, py, metrics, out) ==
    IF ~zoneShowLabel(zone, z) THEN out
    ELSE CHOOSE next \in
      { IF best # 0
        THEN zoneLabelDrawn(zone, z, p,
                            zonePositions(markerSizeOf(zone, z), metrics[zone.name],
                                          zoneFontSize(z))[best],
                            metrics[zone.name], zoneFontSize(z), out)
        ELSE IF importanceOf(zone) = "high"
        THEN zoneLabelDrawn(zone, z, p,
                            [dx |-> RAdd(markerSizeOf(zone, z), R(4)), dy |-> R(3)],
                            metrics[zone.name], zoneFontSize(z), out)
        ELSE out :
          p \in { toCanvas(zone.center[1], zone.center[2], z, px, py) },
          best \in { bestPosFrom(toCanvas(zone.center[1], zone.center[2], z, px, py).x,
                                 toCanvas(zone.center[1], zone.center[2], z, px, py).y,
                                 zonePositions(markerSizeOf(zone, z),
                                               metrics[zone.name], zoneFontSize(z)),
                                 1, metrics[zone.name], zoneFontSize(z),
                                 out.boxes) } } : TRUE

\* labelZones.forEach from index k on
RECURSIVE drawZoneLabelsFrom(_, _, _, _, _, _, _)
drawZoneLabelsFrom(zones, k, z, px, py, metrics, out) ==
    IF k > Len(zones) THEN out
    ELSE CHOOSE r \in
            { drawZoneLabelsFrom(zones, k + 1, z, px, py, metrics, next) :
                next \in { drawZoneLabel(zones[k], z, px, py, metrics, out) } } : TRUE

\* drawBattleZones that returns a new empty list when it has nothing to draw
drawBattleZones_emptyOnReturn(data, existingLabelBoxes, z, px, py, metrics) ==
    IF data = None \/ RLt(z, Rat(5, 2))
    THEN [boxes |-> << >>, calls |-> << >>]
    ELSE drawZoneLabelsFrom(labelZonesOf(data, z, px, py), 1, z, px, py, metrics,
                            [boxes |-> existingLabelBoxes, calls |-> << >>])

\* drawBattleZones: the returned list (a copy of the argument, appended to)
\* and the text drawn
drawBattleZones(data, existingLabelBoxes, z, px, py, metrics) ==
    IF data = None \/ RLt(z, Rat(5, 2))
    THEN [boxes |-> existingLabelBoxes, calls |-> << >>]
    ELSE drawZoneLabelsFrom(labelZonesOf(data, z, px, py), 1, z, px, py, metrics,
                            [boxes |-> existingLabelBoxes, calls |-> << >>])

----------------------------------------------------------------------------
(* Specification of the label layout: the renderer at a sampled view, with *)
(* sampled conflict data and text metrics, is asked to draw cities and     *)
(* battle zones; a frame is drawCities from an empty list followed by      *)
(* drawBattleZones on the list it returned.                                *)

MaxFrames == 2

City(name, lat, lon, strategic) ==
    [name |-> name, lat |-> R(lat), lon |-> R(lon), strategic |-> strategic]

Zone(name, lat, lon, importance, activityLevel) ==
    [name |-> name, center |-> << R(lat), R(lon) >>,
     importance |-> importance, activityLevel |-> activityLevel]

\* cities and battle zones a few degrees apart, and some far from them
Crowded ==
    [majorCities |->
        << City("Kyiv", 50, 31, TRUE), City("Kharkiv", 50, 36, TRUE),
           City("Odesa", 46, 31, TRUE), City("Dnipro", 48, 35, FALSE),
           City("Lviv", 50, 24, FALSE), City("Cairo", 30, 31, TRUE) >>,
     activeConflicts |->
        << << Zone("Kupiansk", 50, 38, "low", "static"),
              Zone("Bakhmut", 49, 38, "high", "hot"),
              Zone("Avdiivka", 48, 38, "medium", "active"),
              Zone("Robotyne", 47, 36, "high", "static"),
              Zone("Vuhledar", 48, 37, "undefined", "hot") >>,
           << Zone("Khartoum", 15, 32, "high", "active"),
              Zone("Darfur", 13, 25, "medium", "hot") >> >>]

\* cities and battle zones far from each other
Sparse ==
    [majorCities |->
        << City("Kyiv", 50, 31, TRUE), City("Cairo", 0, 31, FALSE),
           City("Tokyo", 36, 140, TRUE) >>,
     activeConflicts |->
        << << Zone("Bakhmut", 49, -38, "high", "hot"),
              Zone("Avdiivka", -48, 38, "medium", "static") >> >>]

\* a medium-importance zone listed before a low-importance one, far apart
Listed ==
    [majorCities |-> << City("Cairo", 30, 31, TRUE) >>,
     activeConflicts |->
        << << Zone("Avdiivka", 40, -60, "medium", "active"),
              Zone("Kupiansk", -40, 60, "low", "static"),
              Zone("Bakhmut", 0, 0, "high", "hot") >> >>]

DataSamples == { None, Crowded, Sparse, Listed }

Names ==
    { "Kyiv", "Kharkiv", "Odesa", "Dnipro", "Lviv", "Cairo", "Tokyo", "Kupiansk",
      "Bakhmut", "Avdiivka", "Robotyne", "Vuhledar", "Khartoum", "Darfur" }

\* ctx.measureText(name).width: short and long labels
MetricSamples == { [n \in Names |-> R(6)], [n \in Names |-> R(20)] }

\* views whose zoom has a rational square root
LabelViews ==
    { << minZoom, R(0), R(0) >>, << R(4), R(0), R(0) >>, << Rat(25, 4), R(0), R(0) >>,
      << R(9), R(0), R(0) >>, << maxZoom, R(0), R(0) >>, << maxZoom, R(-20), R(30) >> }

\* a list that another layer has put a box into
PriorBoxes == << [x |-> R(0), y |-> R(-40), width |-> R(40), height |-> R(20)] >>

\* (args records the call: the list the caller passed as it was at the call,
\* and as it is after it: drawCities pushes onto the caller's array and returns
\* it, drawBattleZones works on a copy, const labelBoxes = [...existingLabelBoxes])

\* drawCities is given the list that does not follow the argument but is the
\* one returned last
DrawCities_sharedList(boxes) ==
    /\ Len(frames) < MaxFrames
    /\ \E out \in { drawCities(conflictData, labelBoxes, zoom, panX, panY,
                                textMetrics) } :
          /\ labelBoxes' = out.boxes
          /\ ctxCalls' = out.calls
          /\ call' = Call("drawCities", 0, 0, 0, out.boxes)
    /\ args' = [fn |-> "drawCities", labelBoxes |-> boxes, frame |-> FALSE,
                after |-> labelBoxes']
    /\ UNCHANGED <<viewVars, nEvents, projVars, countries, conflictData,
                   textMetrics, frames,
                   serviceVars>>

\* drawCities that re-centres the view before drawing
DrawCities_resetsView(boxes) ==
    /\ Len(frames) < MaxFrames
    /\ \E out \in { drawCities(conflictData, boxes, R(1), R(0), R(0),
                                textMetrics) } :
          /\ labelBoxes' = out.boxes
          /\ ctxCalls' = out.calls
          /\ call' = Call("drawCities", 0, 0, 0, out.boxes)
    /\ zoom' = R(1) /\ panX' = R(0) /\ panY' = R(0)
    /\ args' = [fn |-> "drawCities", labelBoxes |-> boxes, frame |-> FALSE,
                after |-> labelBoxes']
    /\ UNCHANGED <<isDragging, dragStartX, dragStartY, lastPanX, lastPanY,
                   nEvents, projVars, countries, conflictData, textMetrics,
                   frames,
                   serviceVars>>

DrawCities(boxes) ==
    /\ Len(frames) < MaxFrames
    /\ \E out \in { drawCities(conflictData, boxes, zoom, panX, panY,
                                textMetrics) } :
          /\ labelBoxes' = out.boxes
          /\ ctxCalls' = out.calls
          /\ call' = Call("drawCities", 0, 0, 0, out.boxes)
    /\ args' = [fn |-> "drawCities", labelBoxes |-> boxes, frame |-> FALSE,
                after |-> labelBoxes']
    /\ UNCHANGED <<viewVars, nEvents, projVars, countries, conflictData,
                   textMetrics, frames,
                   serviceVars>>

\* the last call was drawCities on an empty list, and its list is passed on
CompletesFrame(existingLabelBoxes) ==
    /\ call.op = "drawCities"
    /\ args.labelBoxes = << >>
    /\ existingLabelBoxes = labelBoxes

DrawBattleZones(existingLabelBoxes) ==
    /\ Len(frames) < MaxFrames
    /\ \E out \in { drawBattleZones(conflictData, existingLabelBoxes, zoom, panX,
                                     panY, textMetrics) } :
          /\ labelBoxes' = out.boxes
          /\ ctxCalls' = out.calls
          /\ call' = Call("drawBattleZones", 0, 0, 0, out.boxes)
          /\ frames' = IF CompletesFrame(existingLabelBoxes)
                       THEN Append(frames, out.boxes) ELSE frames
    /\ args' = [fn |-> "drawBattleZones", labelBoxes |-> existingLabelBoxes,
                frame |-> CompletesFrame(existingLabelBoxes),
                after |-> existingLabelBoxes]
    /\ UNCHANGED <<viewVars, nEvents, projVars, countries, conflictData,
                   textMetrics,
                   serviceVars>>

InitLabels ==
    /\ \E v \in LabelViews : zoom = v[1] /\ panX = v[2] /\ panY = v[3]
    /\ isDragging = FALSE
    /\ dragStartX = 0 /\ dragStartY = 0
    /\ lastPanX = R(0) /\ lastPanY = R(0)
    /\ nEvents = 0
    /\ call = Call("constructor", 0, 0, 0, None)
    /\ geoIn = None /\ screenOut = None /\ screenIn = None /\ geoOut = None
    /\ countries = None /\ args = None /\ ctxCalls = None
    /\ conflictData \in DataSamples
    /\ textMetrics \in MetricSamples
    /\ labelBoxes = << >> /\ frames = << >>
    /\ ServicesAbsent

NextLabels ==
    \/ \E boxes \in { << >>, PriorBoxes } : DrawCities(boxes)
    \/ \E existing \in { << >> } \cup
                        (IF call.op = "drawCities" THEN { labelBoxes } ELSE {}) :
          DrawBattleZones(existing)

SpecLabels == InitLabels /\ [][NextLabels]_vars

----------------------------------------------------------------------------
(* Properties of the label layout *)

\* two boxes intersect (axis-aligned)
Intersects(a, b) ==
    /\ RLt(a.x, RAdd(b.x, b.width)) /\ RLt(b.x, RAdd(a.x, a.width))
    /\ RLt(a.y, RAdd(b.y, b.height)) /\ RLt(b.y, RAdd(a.y, a.height))

PairwiseDisjoint(boxes) ==
    \A i, j \in 1..Len(boxes) : i < j => ~Intersects(boxes[i], boxes[j])

\* the last call was a draw method
Drew == call.op \in {"drawCities", "drawBattleZones"}

\* the labels the last draw method drew, in order, and the list it was given
LabelCalls == SelectSeq(ctxCalls, LAMBDA c : c.text # "ACTIVE")
GivenBoxes == args.labelBoxes

\* the i-th label drawn: its box in the returned list, and the list as it
\* was when the label was placed
BoxOfLabel(i) == call.ret[Len(GivenBoxes) + i]
BoxesBeforeLabel(i) == SubSeq(call.ret, 1, Len(GivenBoxes) + i - 1)

\* the returned list is the given list followed by one box per label drawn
AppendsOnePerLabel ==
    /\ Len(call.ret) = Len(GivenBoxes) + Len(LabelCalls)
    /\ SubSeq(call.ret, 1, Len(GivenBoxes)) = GivenBoxes

\* the city or the battle zone of the i-th label drawn
AllZones ==
    UNION { { conflictData.activeConflicts[k][m] :
                m \in 1..Len(conflictData.activeConflicts[k]) } :
            k \in 1..Len(conflictData.activeConflicts) }

EntityOfLabel(i) ==
    IF call.op = "drawCities"
    THEN CHOOSE c \in { conflictData.majorCities[k] :
                          k \in 1..Len(conflictData.majorCities) } :
            c.name = LabelCalls[i].text
    ELSE CHOOSE zone \in AllZones : zone.name = LabelCalls[i].text

\* the marker, the text size and the candidate offsets of the i-th label
MarkerOfLabel(i) ==
    IF call.op = "drawCities"
    THEN toCanvas(EntityOfLabel(i).lat, EntityOfLabel(i).lon, zoom, panX, panY)
    ELSE toCanvas(EntityOfLabel(i).center[1], EntityOfLabel(i).center[2],
                  zoom, panX, panY)

TextWidthOfLabel(i) == textMetrics[LabelCalls[i].text]

TextHeightOfLabel(i) ==
    IF call.op = "drawCities" THEN cityFontSize(zoom) ELSE zoneFontSize(zoom)

OffsetsOfLabel(i) ==
    IF call.op = "drawCities"
    THEN cityPositions(TextWidthOfLabel(i), TextHeightOfLabel(i))
    ELSE zonePositions(markerSizeOf(EntityOfLabel(i), zoom),
                       TextWidthOfLabel(i), TextHeightOfLabel(i))

\* the box of the j-th candidate of the i-th label
CandidateOfLabel(i, j) ==
    [x |-> RSub(RAdd(MarkerOfLabel(i).x, OffsetsOfLabel(i)[j].dx), R(2)),
     y |-> RSub(RAdd(MarkerOfLabel(i).y, OffsetsOfLabel(i)[j].dy),
                TextHeightOfLabel(i)),
     width |-> RAdd(TextWidthOfLabel(i), R(4)),
     height |-> RAdd(TextHeightOfLabel(i), R(4))]

\* the j-th candidate of the i-th label met no box of the list
CandidateFree(i, j) ==
    \A k \in 1..Len(BoxesBeforeLabel(i)) :
        ~Intersects(CandidateOfLabel(i, j), BoxesBeforeLabel(i)[k])

\* the i-th label was drawn at its j-th candidate
DrawnAtCandidate(i, j) ==
    /\ LabelCalls[i].x = RAdd(MarkerOfLabel(i).x, OffsetsOfLabel(i)[j].dx)
    /\ LabelCalls[i].y = RAdd(MarkerOfLabel(i).y, OffsetsOfLabel(i)[j].dy)
    /\ BoxOfLabel(i).x = CandidateOfLabel(i, j).x
    /\ BoxOfLabel(i).y = CandidateOfLabel(i, j).y
    /\ BoxOfLabel(i).width = CandidateOfLabel(i, j).width

\* C16: every label drawn by drawCities or drawBattleZones is at one of its
\* candidate offsets, in the listed order the first whose box
\* {x: markerX+dx-2, y: markerY+dy-textHeight, width: textWidth+4,
\* height: textHeight+4} intersects no box already in the list, when there is
\* one; a later candidate is chosen only if every earlier one collides.
C16_FirstFreeCandidate ==
    Drew =>
        /\ AppendsOnePerLabel
        /\ \A i \in 1..Len(LabelCalls) :
              \E j \in 1..Len(OffsetsOfLabel(i)) :
                  /\ DrawnAtCandidate(i, j)
                  /\ \A e \in 1..(j - 1) : ~CandidateFree(i, e)
                  /\ CandidateFree(i, j)
                        \/ \A e \in 1..Len(OffsetsOfLabel(i)) : ~CandidateFree(i, e)

\* a label drawn at its last candidate: the fourth of the city Lviv, or the
\* fifth of a battle zone
C16_Witness ==
    /\ Drew
    /\ \E i \in 1..Len(LabelCalls) :
          /\ DrawnAtCandidate(i, Len(OffsetsOfLabel(i)))
          /\ CandidateFree(i, Len(OffsetsOfLabel(i)))
          /\ LabelCalls[i].text = "Lviv" \/ Len(OffsetsOfLabel(i)) = 5

\* C17: every box drawCities appends intersects no box that was in the list
\* when it was appended; the list it was given stays at the front, so a
\* pairwise non-intersecting list stays pairwise non-intersecting.
C17_CitiesNoOverlap ==
    call.op = "drawCities" =>
        /\ SubSeq(call.ret, 1, Len(GivenBoxes)) = GivenBoxes
        /\ \A i \in (Len(GivenBoxes) + 1)..Len(call.ret) :
              \A k \in 1..(i - 1) : ~Intersects(call.ret[i], call.ret[k])
        /\ PairwiseDisjoint(GivenBoxes) => PairwiseDisjoint(call.ret)

\* three city labels added to a list that held a box, one of them moved off
\* its first candidate
C17_Witness ==
    /\ call.op = "drawCities"
    /\ GivenBoxes = PriorBoxes
    /\ Len(call.ret) >= Len(GivenBoxes) + 3
    /\ \E i \in 1..Len(LabelCalls) : ~CandidateFree(i, 1)

\* the i-th label drawn intersects a box that was in the list before it
LabelOverlaps(i) ==
    \E k \in 1..Len(BoxesBeforeLabel(i)) :
        Intersects(BoxOfLabel(i), BoxesBeforeLabel(i)[k])

\* the status line was drawn under the i-th label (the box is taller than the
\* candidate that was tested)
LabelHasStatus(i) ==
    BoxOfLabel(i).height # RAdd(TextHeightOfLabel(i), R(4))

\* C18 as claimed: the list of a frame, returned by drawBattleZones for the
\* list drawCities returned, is pairwise non-intersecting.
C18_FrameListDisjoint ==
    (call.op = "drawBattleZones" /\ args.frame) => PairwiseDisjoint(call.ret)

\* C18: a box that drawBattleZones appends intersects a box that was in the
\* list before it only if its zone is of high importance and either all five
\* candidates collided or the status line made the box taller than the
\* candidate that was tested.
C18_OnlyHighImportanceOverlaps ==
    call.op = "drawBattleZones" =>
        /\ AppendsOnePerLabel
        /\ \A i \in 1..Len(LabelCalls) :
              LabelOverlaps(i) =>
                  /\ EntityOfLabel(i).importance = "high"
                  /\ \/ \A e \in 1..Len(OffsetsOfLabel(i)) : ~CandidateFree(i, e)
                     \/ LabelHasStatus(i)

\* a frame in which a high-importance zone label lies over a city label and a
\* zone label of lower importance lies clear of every box
C18_Witness ==
    /\ call.op = "drawBattleZones" /\ args.frame
    /\ GivenBoxes # << >>
    /\ \E i \in 1..Len(LabelCalls) :
          \E k \in 1..Len(GivenBoxes) : Intersects(BoxOfLabel(i), GivenBoxes[k])
    /\ \E i \in 1..Len(LabelCalls) :
          EntityOfLabel(i).importance # "high" /\ ~LabelOverlaps(i)

C22_GivenListIsPrefix ==
    Drew =>
        /\ Len(call.ret) >= Len(args.labelBoxes)
        /\ \A k \in 1..Len(args.labelBoxes) : call.ret[k] = args.labelBoxes[k]
        /\ call.op = "drawBattleZones" =>
              /\ args.after = args.labelBoxes
              /\ (conflictData = None \/ RLt(zoom, Rat(5, 2))) =>
                    call.ret = args.labelBoxes

\* drawBattleZones has added boxes to a list that held boxes, one of them for
\* a label with a status line (whose box is made taller)
C22_Witness ==
    /\ call.op = "drawBattleZones"
    /\ Len(args.labelBoxes) > 0
    /\ Len(call.ret) > Len(args.labelBoxes)
    /\ \E k \in 1..Len(ctxCalls) : ctxCalls[k].text = "ACTIVE"

\* low < medium < high
ImportanceRank(zone) ==
    CASE importanceOf(zone) = "low" -> 0
      [] importanceOf(zone) = "medium" -> 1
      [] importanceOf(zone) = "high" -> 2

\* allZones after the sort: the order of the marker pass
MarkerPassOrder ==
    sortByImportance(allZonesFrom(conflictData.activeConflicts, 1, zoom))

\* the battle zones in the order in which the label pass drew their labels
LabelPassOrder == [ i \in 1..Len(LabelCalls) |-> EntityOfLabel(i) ]

DrewZones ==
    /\ call.op = "drawBattleZones"
    /\ conflictData # None /\ RLe(Rat(5, 2), zoom)

\* C23: after the sort in drawBattleZones a zone of strictly lower importance
\* (low < medium < high) comes before every zone of strictly higher
\* importance in the marker pass, and the label pass goes through the zones
\* in the reverse order: no label of a zone is drawn after the label of a zone
\* of strictly lower importance.
C23_OrderFollowsImportance ==
    DrewZones =>
        /\ \A i, j \in 1..Len(MarkerPassOrder) :
              ImportanceRank(MarkerPassOrder[i]) < ImportanceRank(MarkerPassOrder[j])
                  => i < j
        /\ \A i, j \in 1..Len(LabelPassOrder) :
              ImportanceRank(LabelPassOrder[i]) > ImportanceRank(LabelPassOrder[j])
                  => i < j

\* the cities or battle zones that the last draw method came to place a label
\* for (visible, on screen, label shown at this zoom), in the order of the pass
LabelCandidates ==
    IF conflictData = None THEN << >>
    ELSE IF call.op = "drawCities"
    THEN SelectSeq(getVisibleCities(conflictData, zoom),
                   LAMBDA c :
                       /\ ~offScreen(toCanvas(c.lat, c.lon, zoom, panX, panY).x,
                                     toCanvas(c.lat, c.lon, zoom, panX, panY).y)
                       /\ \/ c.strategic /\ RLt(R(3), zoom)
                          \/ ~c.strategic /\ RLt(R(4), zoom))
    ELSE SelectSeq(labelZonesOf(conflictData, zoom, panX, panY),
                   LAMBDA zone : zoneShowLabel(zone, zoom))

MarkerOf(e) ==
    IF call.op = "drawCities" THEN toCanvas(e.lat, e.lon, zoom, panX, panY)
    ELSE toCanvas(e.center[1], e.center[2], zoom, panX, panY)

TextHeight == IF call.op = "drawCities" THEN cityFontSize(zoom) ELSE zoneFontSize(zoom)

OffsetsOf(e) ==
    IF call.op = "drawCities" THEN cityPositions(textMetrics[e.name], TextHeight)
    ELSE zonePositions(markerSizeOf(e, zoom), textMetrics[e.name], TextHeight)

\* the list as it was when the k-th of the candidates cands was visited: the
\* given list and the boxes of the labels drawn for those before it
ListAt(cands, k) ==
    SubSeq(call.ret, 1,
           Len(GivenBoxes) +
           Cardinality({ i \in 1..Len(LabelCalls) :
                           \E m \in 1..(k - 1) : cands[m].name = LabelCalls[i].text }))

\* every candidate position of the label of e met a box of the list
PlacementFails(e, list) ==
    LET m == MarkerOf(e)
        offsets == OffsetsOf(e)
    IN  \A j \in 1..Len(offsets) :
            \E b \in 1..Len(list) :
                Intersects([x |-> RSub(RAdd(m.x, offsets[j].dx), R(2)),
                            y |-> RSub(RAdd(m.y, offsets[j].dy), TextHeight),
                            width |-> RAdd(textMetrics[e.name], R(4)),
                            height |-> RAdd(TextHeight, R(4))],
                           list[b])

\* the label of e was drawn to the right of its marker, at
\* (x + markerSize + 4, y + 3), and its box follows the list in the list
\* returned
ForcePlaced(e, list) ==
    LET m == MarkerOf(e)
        n == Len(list) + 1
        labelX == RAdd(m.x, RAdd(markerSizeOf(e, zoom), R(4)))
        labelY == RAdd(m.y, R(3))
    IN  /\ \E i \in 1..Len(LabelCalls) :
              /\ LabelCalls[i].text = e.name
              /\ LabelCalls[i].x = labelX
              /\ LabelCalls[i].y = labelY
        /\ n <= Len(call.ret)
        /\ call.ret[n].x = RSub(labelX, R(2))
        /\ call.ret[n].y = RSub(labelY, TextHeight)
        /\ call.ret[n].width = RAdd(textMetrics[e.name], R(4))

NotDrawn(e) == \A i \in 1..Len(LabelCalls) : LabelCalls[i].text # e.name

\* C24: when every candidate position of a label collides, drawCities draws no
\* label and appends no box, drawBattleZones does the same for zones of medium
\* and low importance, and draws the label of a high-importance zone at the
\* default position to the right of the marker, appending its box; the call
\* returns its list in every case, with one box per label drawn.
C24_PlacementFailurePolicy ==
    Drew =>
        LET cands == LabelCandidates
        IN  /\ Len(call.ret) = Len(GivenBoxes) + Len(LabelCalls)
            /\ \A k \in 1..Len(cands) :
                  PlacementFails(cands[k], ListAt(cands, k)) =>
                      IF call.op = "drawBattleZones" /\ importanceOf(cands[k]) = "high"
                      THEN ForcePlaced(cands[k], ListAt(cands, k))
                      ELSE NotDrawn(cands[k])

\* drawBattleZones has met a high-importance zone and a zone of lower
\* importance whose candidates all collided
C24_Witness ==
    /\ call.op = "drawBattleZones"
    /\ LET cands == LabelCandidates
       IN  /\ \E k \in 1..Len(cands) :
                 /\ PlacementFails(cands[k], ListAt(cands, k))
                 /\ importanceOf(cands[k]) = "high"
           /\ \E k \in 1..Len(cands) :
                 /\ PlacementFails(cands[k], ListAt(cands, k))
                 /\ importanceOf(cands[k]) # "high"

----------------------------------------------------------------------------
(* Polygon drawing: drawPolygon and the path it sends to the 2D context *)

\* a call of a path method of this.ctx (x, y are None when it has no arguments)
pathCall(name, x, y) == [op |-> name, x |-> x, y |-> y]

\* the longitude at which drawPolygon projects point i of the ring: the raw
\* longitude, moved by 360 when it is more than 180 away from the raw
\* longitude of the point before it
adjustedLon(ring, i) ==
    LET lon == ring[i][1]
    IN  IF i > 1
        THEN LET diff == RSub(lon, ring[i - 1][1])
             IN  IF RLt(R(180), diff) THEN RSub(lon, R(360))
                 ELSE IF RLt(diff, R(-180)) THEN RAdd(lon, R(360))
                 ELSE lon
        ELSE lon

\* the calls drawPolygon makes for one ring ([lon, lat] positions)
drawRing(ring, z, px, py) ==
    IF Len(ring) < 3 THEN << >>
    ELSE << pathCall("beginPath", None, None) >>
         \o [ i \in 1..Len(ring) |->
                LET pos == toCanvas(ring[i][2], adjustedLon(ring, i), z, px, py)
                IN  pathCall(IF i = 1 THEN "moveTo" ELSE "lineTo", pos.x, pos.y) ]
         \o << pathCall("closePath", None, None), pathCall("fill", None, None),
               pathCall("stroke", None, None) >>

RECURSIVE drawRingsFrom(_, _, _, _, _)
drawRingsFrom(coordinates, k, z, px, py) ==
    IF k > Len(coordinates) THEN << >>
    ELSE drawRing(coordinates[k], z, px, py)
         \o drawRingsFrom(coordinates, k + 1, z, px, py)

\* GeoJSONMapRenderer.drawPolygon: the calls made on this.ctx
drawPolygon(coordinates, z, px, py) == drawRingsFrom(coordinates, 1, z, px, py)

\* sampled rings, [lon, lat] in degrees: away from the antimeridian, crossing
\* it eastwards and going on, crossing it westwards and going on, crossing it
\* and coming back, crossing it on the last edge only, and too short to draw
InlandRing == << Pt(0, 0), Pt(10, 0), Pt(10, 10) >>
EastwardRing == << Pt(179, 0), Pt(-179, 0), Pt(-178, 10) >>
WestwardRing == << Pt(-179, 0), Pt(179, 0), Pt(178, 10) >>
ReturningRing == << Pt(179, 0), Pt(-179, 0), Pt(179, 10) >>
LastEdgeRing == << Pt(170, 0), Pt(179, 10), Pt(-179, 0) >>
ShortRing == << Pt(179, 0), Pt(-179, 0) >>

RingSamples ==
    { InlandRing, EastwardRing, WestwardRing, ReturningRing, LastEdgeRing,
      ShortRing, EmptyRing }

\* polygons of one ring, and of an outer ring with a second ring
DrawSamples ==
    { << r >> : r \in RingSamples } \cup
    { << r, s >> : r \in RingSamples, s \in RingSamples }

DrawViews == QueryViews \cup { << R(2), R(0), R(0) >> }

DrawCalls == { [fn |-> "drawPolygon", coordinates |-> c] : c \in DrawSamples }

DrawPolygon ==
    /\ Pending("drawPolygon")
    /\ ctxCalls' = drawPolygon(args.coordinates, zoom, panX, panY)
    /\ call' = Call("drawPolygon", 0, 0, 0, None)
    /\ UNCHANGED <<viewVars, nEvents, projVars, countries, args, labelVars, serviceVars>>

InitDraw == \E v \in DrawViews : \E a \in DrawCalls : QueryState(v, None, a)

NextDraw == DrawPolygon

SpecDraw == InitDraw /\ [][NextDraw]_vars

----------------------------------------------------------------------------
(* Antimeridian handling *)

\* the sub-paths of a sequence of context calls: the points of the moveTo and
\* lineTo calls between one beginPath and the next
RECURSIVE PathsFrom(_, _, _)
PathsFrom(calls, k, paths) ==
    IF k > Len(calls) THEN paths
    ELSE IF calls[k].op = "beginPath"
         THEN PathsFrom(calls, k + 1, Append(paths, << >>))
    ELSE IF calls[k].op \in {"moveTo", "lineTo"}
         THEN PathsFrom(calls, k + 1,
                        [paths EXCEPT ![Len(paths)] =
                            Append(@, << calls[k].x, calls[k].y >>)])
    ELSE PathsFrom(calls, k + 1, paths)

Paths == PathsFrom(ctxCalls, 1, << >>)

\* the rings of the pending polygon that drawPolygon draws
DrawnRings == SelectSeq(args.coordinates, LAMBDA r : Len(r) >= 3)

\* the running shift of point i of a ring: -360 for every jump of more than
\* 180 degrees eastwards in raw longitude up to i, +360 for every such jump
\* westwards
RECURSIVE RunningShift(_, _)
RunningShift(ring, i) ==
    IF i = 1 THEN R(0)
    ELSE LET diff == RSub(ring[i][1], ring[i - 1][1])
             step == IF RLt(R(180), diff) THEN R(-360)
                     ELSE IF RLt(diff, R(-180)) THEN R(360)
                     ELSE R(0)
         IN  RAdd(RunningShift(ring, i - 1), step)

\* half the base map width times zoom: 180 degrees of longitude on the canvas
HalfMap == RMul(RDiv(width, R(2)), zoom)

DrewPolygon == call.op = "drawPolygon"

\* C20: drawPolygon projects every point of a ring at its raw longitude plus
\* the running shift of -360 or +360 degrees accumulated over the antimeridian
\* crossings before it (a crossing being two consecutive points more than 180
\* degrees apart in raw longitude), so that no two consecutive points of the
\* path are more than 180 degrees of longitude, half the base map width times
\* zoom, apart in x; the ring it was given keeps its coordinates.
C20_CumulativeAntimeridianShift ==
    DrewPolygon =>
        /\ Len(Paths) = Len(DrawnRings)
        /\ \A r \in 1..Len(DrawnRings) :
              LET ring == DrawnRings[r]
                  path == Paths[r]
              IN  /\ Len(path) = Len(ring)
                  /\ \A i \in 1..Len(ring) :
                        path[i][1] =
                            toCanvas(ring[i][2],
                                     RAdd(ring[i][1], RunningShift(ring, i)),
                                     zoom, panX, panY).x
                  /\ \A i \in 2..Len(ring) :
                        RLe(RAbs(RSub(path[i][1], path[i - 1][1])), HalfMap)
        /\ args.coordinates \in DrawSamples

----------------------------------------------------------------------------
(* The renderer in use: events, projections, hit tests and draws interleaved *)

\* the pending hit test or polygon of a renderer in use
FrameCalls ==
    << [fn |-> "getCountryAtPoint", mouseX |-> 2, mouseY |-> 1],
      [fn |-> "getShippingLaneAtPoint", mouseX |-> R(4), mouseY |-> R(1)],
      [fn |-> "drawPolygon", coordinates |-> << InlandRing, EastwardRing >>] >>

\* the renderer at the view v after n zooming or mouse-down events, with the
\* countries loaded, the conflict data and the call a
FrameState(v, n, data, a) ==
    /\ zoom = v[1] /\ panX = v[2] /\ panY = v[3]
    /\ isDragging = FALSE
    /\ dragStartX = 0 /\ dragStartY = 0
    /\ lastPanX = R(0) /\ lastPanY = R(0)
    /\ nEvents = n
    /\ call = Call("constructor", 0, 0, 0, None)
    /\ geoIn = None /\ screenOut = None /\ screenIn = None /\ geoOut = None
    /\ countries = << West, Isles, Wedge >>
    /\ args = a /\ ctxCalls = None
    /\ conflictData = data
    /\ textMetrics = [n2 \in Names |-> R(20)]
    /\ labelBoxes = << >> /\ frames = << >>
    /\ ServicesAbsent

\* either the renderer as constructed, before any conflict data is supplied,
\* or the renderer showing conflict data at a zoomed view; the events that
\* led to that view count as MaxEvents, so that only events that keep the zoom
\* follow (the marker size is computed for zooms with a rational root only)
InitFrame ==
    \E i \in 1..Len(FrameCalls) :
        \/ FrameState(<< minZoom, R(0), R(0) >>, MaxEvents - 1, None, FrameCalls[i])
        \/ FrameState(<< R(4), R(3), R(-2) >>, MaxEvents, Crowded, FrameCalls[i])

NextFrame ==
    \/ Next
    \/ CallToCanvas(R(50), R(31))
    \/ CallToLatLon([x |-> R(3), y |-> Rat(5, 2)])
    \/ CallGetCountryAtPoint
    \/ CallGetShippingLaneAtPoint
    \/ DrawPolygon
    \/ DrawCities(<< >>)
    \/ DrawBattleZones(IF call.op = "drawCities" THEN labelBoxes ELSE << >>)

SpecFrame == InitFrame /\ [][NextFrame]_vars

----------------------------------------------------------------------------
(* Frame condition of the view state *)

ViewMutators ==
    { "handleWheel", "handleMouseDown", "handleMouseMove", "handleMouseUp",
      "resetView" }

ViewReaders ==
    { "toCanvas", "toLatLon", "getCountryAtPoint", "getShippingLaneAtPoint",
      "drawPolygon", "drawCities", "drawBattleZones" }

\* C21: the view state (zoom, panX, panY, isDragging, the drag anchor and the
\* reference pan) changes only in a step of handleWheel, handleMouseDown,
\* handleMouseMove (each with its constrainPan), handleMouseUp or resetView;
\* a step of toCanvas, toLatLon, getCountryAtPoint, getShippingLaneAtPoint or
\* of a draw method leaves every one of these fields as it was.
C21_ViewChangedOnlyByHandlers ==
    [][ /\ call'.op \in ViewMutators \cup ViewReaders
        /\ call'.op \in ViewReaders => UNCHANGED viewVars
        /\ viewVars' # viewVars => call'.op \in ViewMutators ]_vars

\* a frame with labels has been drawn at a zoomed, panned view, a point has
\* been projected, and the view has then been reset
C21_Witness ==
    /\ call.op = "resetView"
    /\ Len(frames) > 0 /\ Len(frames[1]) > 0
    /\ screenOut # None
    /\ zoom = R(1)

----------------------------------------------------------------------------
(* ConflictNewsService (src/conflict-news-service.js): the cache, the       *)
(* isLoading flags and the fetches in flight.  A JavaScript Map is a        *)
(* function whose domain is the set of keys that have been set.             *)

cacheTTL == 15 * 60 * 1000

\* Date.now() is read at these instants: the entry cached at 0 is one
\* millisecond short of cacheTTL old at the second and cacheTTL old at the third
Instants == { 0, cacheTTL - 1, cacheTTL }

\* zone names passed to the service by its callers; "BAKHMUT" differs in case
\* only from the name preloadNews passes
ZoneNames == { "BAKHMUT", "suez-canal" }

\* String.prototype.toLowerCase on the names used here
toLowerCase(s) ==
    CASE s = "Bakhmut" -> "bakhmut"
      [] s = "BAKHMUT" -> "bakhmut"
      [] OTHER -> s

corsProxies == << "allorigins", "corsproxy", "codetabs" >>

MapHas(m, k) == k \in DOMAIN m
MapSet(m, k, v) == [ x \in DOMAIN m \cup {k} |-> IF x = k THEN v ELSE m[x] ]

\* getFallbackNews: the entry of fallbackData for the lower-cased name (two of
\* its entries here), or one generic item naming the zone
getFallbackNews(zoneName) ==
    CASE toLowerCase(zoneName) = "suez-canal" ->
            << [source |-> "Maritime Intel", about |-> "suez-canal"],
               [source |-> "Industry", about |-> "suez-canal"] >>
      [] toLowerCase(zoneName) = "bakhmut" ->
            << [source |-> "DeepState", about |-> "bakhmut"],
               [source |-> "UA MOD", about |-> "bakhmut"] >>
      [] OTHER -> << [source |-> "OSINT", about |-> zoneName] >>

\* parseGoogleNewsRSS of a feed with n items: at most 5 of them
parseGoogleNewsRSS(n) ==
    [ i \in 1..(IF n > 5 THEN 5 ELSE n) |-> [source |-> "rss", about |-> "item"] ]

\* sizes of the feeds a proxy returns
FeedSizes == { 0, 6 }

\* the value a call returns, or resolves to: null, a news list, or still
\* pending
Null == [kind |-> "null", news |-> << >>]
News(list) == [kind |-> "news", news |-> list]
Unsettled == [kind |-> "pending", news |-> << >>]

\* the service's state as an operator sees and leaves it, with the value
\* returned
Service == [cache |-> cache, isLoading |-> isLoading, fetches |-> fetches,
            ret |-> Null]

\* fetchNewsForZone without the isLoading test
fetchNewsForZone_noLoadingTest(zoneName, s) ==
    LET cacheKey == toLowerCase(zoneName)
    IN  IF MapHas(s.cache, cacheKey)
           /\ now - s.cache[cacheKey].timestamp < cacheTTL
        THEN [s EXCEPT !.ret = News(s.cache[cacheKey].news)]
        ELSE [s EXCEPT !.isLoading = MapSet(s.isLoading, cacheKey, TRUE),
                       !.fetches = Append(s.fetches,
                                          [zoneName |-> zoneName, key |-> cacheKey,
                                           proxy |-> 1, stage |-> "fetch"]),
                       !.ret = Unsettled]

\* fetchNewsForZone for which an entry of age cacheTTL is still fresh
fetchNewsForZone_lateExpiry(zoneName, s) ==
    LET cacheKey == toLowerCase(zoneName)
    IN  IF MapHas(s.cache, cacheKey)
           /\ now - s.cache[cacheKey].timestamp <= cacheTTL
        THEN [s EXCEPT !.ret = News(s.cache[cacheKey].news)]
        ELSE IF MapHas(s.isLoading, cacheKey) /\ s.isLoading[cacheKey]
        THEN [s EXCEPT !.ret = Null]
        ELSE [s EXCEPT !.isLoading = MapSet(s.isLoading, cacheKey, TRUE),
                       !.fetches = Append(s.fetches,
                                          [zoneName |-> zoneName, key |-> cacheKey,
                                           proxy |-> 1, stage |-> "fetch"]),
                       !.ret = Unsettled]

\* fetchNewsForZone up to its first await: the cache test, the isLoading test,
\* and the request to the first proxy
fetchNewsForZone(zoneName, s) ==
    LET cacheKey == toLowerCase(zoneName)
    IN  IF MapHas(s.cache, cacheKey)
           /\ now - s.cache[cacheKey].timestamp < cacheTTL
        THEN [s EXCEPT !.ret = News(s.cache[cacheKey].news)]
        ELSE IF MapHas(s.isLoading, cacheKey) /\ s.isLoading[cacheKey]
        THEN [s EXCEPT !.ret = Null]
        ELSE [s EXCEPT !.isLoading = MapSet(s.isLoading, cacheKey, TRUE),
                       !.fetches = Append(s.fetches,
                                          [zoneName |-> zoneName, key |-> cacheKey,
                                           proxy |-> 1, stage |-> "fetch"]),
                       !.ret = Unsettled]

RemoveAt(seq, i) == SubSeq(seq, 1, i - 1) \o SubSeq(seq, i + 1, Len(seq))

\* the end of fetchNewsForZone that resets isLoading and caches nothing when
\* no proxy has given news
finish_noFallback(s, i, news) ==
    LET task == s.fetches[i]
    IN  [s EXCEPT !.cache = IF news = << >> THEN s.cache
                            ELSE MapSet(s.cache, task.key,
                                        [news |-> news, timestamp |-> now]),
                  !.isLoading = MapSet(s.isLoading, task.key, FALSE),
                  !.fetches = RemoveAt(s.fetches, i),
                  !.ret = News(news)]

\* the end of fetchNewsForZone for the call fetches[i]: the fallback when
\* there is no news, cache.set, isLoading.set(false), return news
finish(s, i, news) ==
    LET task == s.fetches[i]
        result == IF news = << >> THEN getFallbackNews(task.zoneName) ELSE news
    IN  [s EXCEPT !.cache = MapSet(s.cache, task.key,
                                   [news |-> result, timestamp |-> now]),
                  !.isLoading = MapSet(s.isLoading, task.key, FALSE),
                  !.fetches = RemoveAt(s.fetches, i),
                  !.ret = News(result)]

\* the loop goes on to the next proxy, or ends
nextProxy(s, i) ==
    IF s.fetches[i].proxy < Len(corsProxies)
    THEN [s EXCEPT !.fetches[i].proxy = @ + 1, !.fetches[i].stage = "fetch",
                   !.ret = Unsettled]
    ELSE finish(s, i, << >>)

\* getCachedNews that fetches again when the entry is older than cacheTTL
getCachedNews_refreshes(zoneName, s) ==
    LET cacheKey == toLowerCase(zoneName)
    IN  IF MapHas(s.cache, cacheKey)
        THEN [fetchNewsForZone(zoneName, s)
                EXCEPT !.ret = News(s.cache[cacheKey].news)]
        ELSE [fetchNewsForZone(zoneName, s) EXCEPT !.ret = Null]

getCachedNews(zoneName, s) ==
    LET cacheKey == toLowerCase(zoneName)
    IN  IF MapHas(s.cache, cacheKey)
        THEN [s EXCEPT !.ret = News(s.cache[cacheKey].news)]
        ELSE [fetchNewsForZone(zoneName, s) EXCEPT !.ret = Null]

preloadZone(zoneName, s) ==
    IF ~MapHas(s.cache, toLowerCase(zoneName))
       /\ ~(MapHas(s.isLoading, toLowerCase(zoneName))
            /\ s.isLoading[toLowerCase(zoneName)])
    THEN [fetchNewsForZone(zoneName, s) EXCEPT !.ret = Null]
    ELSE [s EXCEPT !.ret = Null]

\* the zones preloadNews fetches at once and after 500 ms (the second of the
\* four conflict zones and the first of the four lanes here)
priorityShippingLanes == << "suez-canal" >>
priorityConflictZones == << "Bakhmut" >>

\* zones.forEach(zone => this.fetchNewsForZone(zone)) from index k on
RECURSIVE fetchEach(_, _, _)
fetchEach(zones, k, s) ==
    IF k > Len(zones) THEN [s EXCEPT !.ret = Null]
    ELSE fetchEach(zones, k + 1, fetchNewsForZone(zones[k], s))

\* the record of a call of the service
ServiceCall(name, zoneName, result) == [op |-> name, zone |-> zoneName, ret |-> result]

Leaves(s) ==
    /\ cache' = s.cache
    /\ isLoading' = s.isLoading
    /\ fetches' = s.fetches

rendererVars == <<viewVars, nEvents, projVars, queryVars, labelVars>>

FetchNewsForZone(zoneName) ==
    /\ \E s \in { fetchNewsForZone(zoneName, Service) } :
          /\ Leaves(s)
          /\ call' = ServiceCall("fetchNewsForZone", zoneName, s.ret)
    /\ UNCHANGED <<now, preloadTimer, frontlineVars, rendererVars>>

GetCachedNews(zoneName) ==
    /\ \E s \in { getCachedNews(zoneName, Service) } :
          /\ Leaves(s)
          /\ call' = ServiceCall("getCachedNews", zoneName, s.ret)
    /\ UNCHANGED <<now, preloadTimer, frontlineVars, rendererVars>>

PreloadZone(zoneName) ==
    /\ \E s \in { preloadZone(zoneName, Service) } :
          /\ Leaves(s)
          /\ call' = ServiceCall("preloadZone", zoneName, s.ret)
    /\ UNCHANGED <<now, preloadTimer, frontlineVars, rendererVars>>

\* preloadNews: the first batch, and the timer for the second (one pending
\* timer at a time is followed)
PreloadNews ==
    /\ ~preloadTimer
    /\ \E s \in { fetchEach(priorityShippingLanes, 1, Service) } :
          /\ Leaves(s)
          /\ call' = ServiceCall("preloadNews", "", s.ret)
    /\ preloadTimer' = TRUE
    /\ UNCHANGED <<now, frontlineVars, rendererVars>>

\* the callback of the setTimeout of preloadNews
PreloadTimerFires ==
    /\ preloadTimer
    /\ \E s \in { fetchEach(priorityConflictZones, 1, Service) } :
          /\ Leaves(s)
          /\ call' = ServiceCall("preloadNews.timer", "", s.ret)
    /\ preloadTimer' = FALSE
    /\ UNCHANGED <<now, frontlineVars, rendererVars>>

\* `await fetch(...)` of the call fetches[i] settles: a response that is ok, a
\* response that is not, or an exception (a network error, or the abort after
\* 2500 ms)
FetchSettles(i, outcome) ==
    /\ i \in 1..Len(fetches)
    /\ fetches[i].stage = "fetch"
    /\ \E s \in { IF outcome = "ok"
                  THEN [Service EXCEPT !.fetches[i].stage = "text", !.ret = Unsettled]
                  ELSE nextProxy(Service, i) } :
          /\ Leaves(s)
          /\ call' = ServiceCall("fetchNewsForZone.response", "", s.ret)
    /\ UNCHANGED <<now, preloadTimer, frontlineVars, rendererVars>>

\* `await response.text()` of the call fetches[i] settles: a feed of n items
\* (n < 0: an exception)
TextSettles(i, n) ==
    /\ i \in 1..Len(fetches)
    /\ fetches[i].stage = "text"
    /\ \E s \in { IF n > 0
                  THEN finish(Service, i,
                              parseGoogleNewsRSS(n))
                  ELSE nextProxy(Service, i) } :
          /\ Leaves(s)
          /\ call' = ServiceCall("fetchNewsForZone.text", "", s.ret)
    /\ UNCHANGED <<now, preloadTimer, frontlineVars, rendererVars>>

\* time passes
Tick ==
    /\ \E t \in Instants : t > now /\ now' = t
    /\ call' = ServiceCall("tick", "", Null)
    /\ UNCHANGED <<newsVars, frontlineVars, rendererVars>>

RendererAbsent ==
    /\ zoom = R(1) /\ panX = R(0) /\ panY = R(0)
    /\ isDragging = FALSE
    /\ dragStartX = 0 /\ dragStartY = 0
    /\ lastPanX = R(0) /\ lastPanY = R(0)
    /\ nEvents = 0
    /\ geoIn = None /\ screenOut = None /\ screenIn = None /\ geoOut = None
    /\ countries = None /\ args = None /\ ctxCalls = None
    /\ conflictData = None /\ textMetrics = None
    /\ labelBoxes = << >> /\ frames = << >>

\* the service as constructed
InitNews ==
    /\ RendererAbsent
    /\ call = ServiceCall("constructor", "", Null)
    /\ now = 0
    /\ cache = << >> /\ isLoading = << >>
    /\ fetches = << >>
    /\ preloadTimer = FALSE
    /\ occupiedTerritory = None /\ lastUpdate = None /\ error = None
    /\ isLoadingData = None /\ loads = None

SettleKey(k) ==
    \E i \in 1..Len(fetches) :
        /\ fetches[i].key = k
        /\ \/ \E outcome \in {"ok", "httpError", "exception"} : FetchSettles(i, outcome)
           \/ \E n \in FeedSizes \cup {-1} : TextSettles(i, n)

NextNews ==
    \/ \E zoneName \in ZoneNames : FetchNewsForZone(zoneName)
    \/ \E zoneName \in ZoneNames : GetCachedNews(zoneName)
    \/ \E zoneName \in ZoneNames : PreloadZone(zoneName)
    \/ PreloadNews
    \/ PreloadTimerFires
    \/ \E i \in 1..Len(fetches), outcome \in {"ok", "httpError", "exception"} :
          FetchSettles(i, outcome)
    \/ \E i \in 1..Len(fetches), n \in FeedSizes \cup {-1} : TextSettles(i, n)
    \/ Tick

SpecNews == InitNews /\ [][NextNews]_vars

\* every request to a proxy settles
SpecNewsFair ==
    SpecNews /\ \A k \in { "bakhmut", "suez-canal" } : WF_vars(SettleKey(k))

----------------------------------------------------------------------------
(* Properties of the news service *)

NewsKeys == { toLowerCase(z) : z \in ZoneNames }

InFlight(k) == { i \in 1..Len(fetches) : fetches[i].key = k }

\* the entry for the key k is younger than cacheTTL
Fresh(k) == k \in DOMAIN cache /\ now - cache[k].timestamp < cacheTTL

NewsUnchanged == UNCHANGED <<cache, isLoading, fetches>>

\* a fetch for the key k starts in this step: the request to the first proxy
\* joins the fetches in flight
StartsFetch(k) ==
    /\ Len(fetches') = Len(fetches) + 1
    /\ SubSeq(fetches', 1, Len(fetches)) = fetches
    /\ fetches'[Len(fetches')].key = k
    /\ fetches'[Len(fetches')].proxy = 1
    /\ fetches'[Len(fetches')].stage = "fetch"

\* C25: at most one fetch per lower-cased zone key is in flight at a time,
\* whatever the order of the calls of fetchNewsForZone, getCachedNews,
\* preloadZone and preloadNews; and a fetchNewsForZone call made while a fetch
\* for its key is in flight and the cache has no fresh entry for it returns
\* null and starts no request.
C25_OneFetchPerKey ==
    /\ [](\A k \in NewsKeys : Cardinality(InFlight(k)) <= 1)
    /\ [][ \A z \in ZoneNames :
              (/\ call'.op = "fetchNewsForZone" /\ call'.zone = z
               /\ InFlight(toLowerCase(z)) # {}
               /\ ~Fresh(toLowerCase(z)))
                  => call'.ret = Null /\ NewsUnchanged ]_vars

\* fetchNewsForZone("BAKHMUT") has returned null while the fetch started for
\* "Bakhmut" was waiting for its second proxy
C25_Witness ==
    /\ call.op = "fetchNewsForZone"
    /\ call.zone = "BAKHMUT"
    /\ call.ret = Null
    /\ \E i \in 1..Len(fetches) :
          fetches[i].zoneName = "Bakhmut" /\ fetches[i].proxy = 2

\* the fetch fetches[i] ends in this step
Ends(i) == fetches' = RemoveAt(fetches, i) /\ call'.op # "constructor"

\* C26: a fetchNewsForZone call that has started a fetch ends, when its proxy
\* requests have settled, with a non-empty list in the cache under its
\* lower-cased key, stamped with the time (the fallback list when the last
\* proxy fails), and with isLoading false for the key; every fetch in flight
\* ends; and after a getCachedNews miss the cache comes to hold a non-empty
\* list for the zone.
C26_FetchEndsWithNewsCached ==
    /\ [][ \A i \in 1..Len(fetches) :
              (Len(fetches') < Len(fetches) /\ Ends(i)
               /\ \A j \in 1..(i - 1) : fetches[j] # fetches[i]) =>
                  LET task == fetches[i]
                  IN  /\ task.key \in DOMAIN cache'
                      /\ cache'[task.key].news # << >>
                      /\ cache'[task.key].timestamp = now
                      /\ call'.ret = News(cache'[task.key].news)
                      /\ (task.stage = "fetch" \/ call'.ret.news[1].source # "rss")
                            => cache'[task.key].news = getFallbackNews(task.zoneName)
                      /\ task.key \in DOMAIN isLoading'
                      /\ isLoading'[task.key] = FALSE ]_vars
    /\ \A k \in NewsKeys :
          (\/ InFlight(k) # {}
           \/ /\ call.op = "getCachedNews" /\ call.ret = Null
              /\ toLowerCase(call.zone) = k)
              ~> (/\ InFlight(k) = {}
                  /\ k \in DOMAIN cache
                  /\ cache[k].news # << >>)

\* a fetch has ended with the fallback list after its three proxies failed,
\* and getCachedNews has returned that list
C26_Witness ==
    /\ call.op = "getCachedNews"
    /\ call.zone = "suez-canal"
    /\ call.ret = News(getFallbackNews("suez-canal"))
    /\ InFlight("suez-canal") = {}
    /\ "suez-canal" \in DOMAIN isLoading /\ ~isLoading["suez-canal"]

\* C27: fetchNewsForZone returns the cached news of its key, starting no
\* request and changing neither cache nor isLoading, exactly when the cache has
\* an entry for the key younger than cacheTTL; when there is no entry, or the
\* entry is cacheTTL old or older, and no fetch is in flight for the key, it
\* starts a fetch.
C27_CacheTTL ==
    [][ \A z \in ZoneNames :
           (call'.op = "fetchNewsForZone" /\ call'.zone = z) =>
               LET k == toLowerCase(z)
               IN  IF Fresh(k)
                   THEN call'.ret = News(cache[k].news) /\ NewsUnchanged
                   ELSE /\ call'.ret.kind # "news"
                        /\ InFlight(k) = {} =>
                              /\ StartsFetch(k)
                              /\ isLoading'[k] = TRUE
                              /\ cache' = cache
                              /\ call'.ret = Unsettled ]_vars

\* fetchNewsForZone has started a fetch for an entry exactly cacheTTL old
C27_Witness ==
    /\ call.op = "fetchNewsForZone"
    /\ call.ret = Unsettled
    /\ toLowerCase(call.zone) \in DOMAIN cache
    /\ now - cache[toLowerCase(call.zone)].timestamp = cacheTTL

\* C29: once the cache holds an entry for a key, no call of getCachedNews or
\* preloadZone starts a fetch for the key or changes the service, however old
\* the entry, and getCachedNews returns the stored list; a fetch for the key
\* starts only in a call of fetchNewsForZone (by itself or from preloadNews)
\* made when the entry is at least cacheTTL old, and the entry changes only
\* when such a fetch ends.
C29_EntryRefreshedOnlyByFetch ==
    [][ /\ \A z \in ZoneNames :
              (/\ call'.op \in {"getCachedNews", "preloadZone"} /\ call'.zone = z
               /\ toLowerCase(z) \in DOMAIN cache) =>
                  /\ NewsUnchanged
                  /\ call'.op = "getCachedNews" =>
                        call'.ret = News(cache[toLowerCase(z)].news)
        /\ \A k \in DOMAIN cache :
              /\ Cardinality({ i \in 1..Len(fetches') : fetches'[i].key = k })
                     > Cardinality(InFlight(k)) =>
                    /\ call'.op \in {"fetchNewsForZone", "preloadNews",
                                     "preloadNews.timer"}
                    /\ now - cache[k].timestamp >= cacheTTL
              /\ cache'[k] # cache[k] =>
                    /\ call'.op \in {"fetchNewsForZone.response",
                                     "fetchNewsForZone.text"}
                    /\ InFlight(k) # {}
                    /\ { i \in 1..Len(fetches') : fetches'[i].key = k } = {} ]_vars

\* getCachedNews has returned a list that is cacheTTL old, and no fetch is in
\* flight
C29_Witness ==
    /\ call.op = "getCachedNews"
    /\ call.ret.kind = "news"
    /\ now - cache[toLowerCase(call.zone)].timestamp >= cacheTTL
    /\ fetches = << >>

----------------------------------------------------------------------------
(* UkraineFrontlineData (src/ukraine-frontline-data.js): the four fields    *)
(* and the calls of loadLatestData in progress.  Each call is at one of its *)
(* sources, waiting for fetch or for response.json().                       *)

\* the clock is read at the instants 0..MaxTime
MaxTime == 2

\* the files loadLatestData tries, in its order: the dated files of today,
\* yesterday and the day before, then the local copy
Sources == << "dated0", "dated1", "dated2", "deepstate-frontline.geojson" >>

NoData == [kind |-> "null", file |-> ""]
GeoJSON(file) == [kind |-> "geojson", file |-> file]

NoDate == [kind |-> "null", at |-> 0]
DateAt(t) == [kind |-> "date", at |-> t]

NoError == [kind |-> "null", message |-> ""]
LoadFailed == [kind |-> "string", message |-> "Failed to load frontline data"]

\* the instance, with the value its last call or step returned ("pending": the
\* promise is not settled)
Frontline ==
    [occupiedTerritory |-> occupiedTerritory, lastUpdate |-> lastUpdate,
     error |-> error, isLoading |-> isLoadingData, loads |-> loads,
     ret |-> "undefined"]

\* loadLatestData without its first line
loadLatestData_reentrant(s) ==
    [s EXCEPT !.isLoading = TRUE,
              !.error = NoError,
              !.loads = Append(@, [source |-> 1, stage |-> "fetch"]),
              !.ret = "pending"]

\* loadLatestData up to its first await
loadLatestData(s) ==
    IF s.isLoading
    THEN [s EXCEPT !.ret = "undefined"]
    ELSE [s EXCEPT !.isLoading = TRUE,
                   !.error = NoError,
                   !.loads = Append(@, [source |-> 1, stage |-> "fetch"]),
                   !.ret = "pending"]

\* the two successful exits: the data and the date are stored
succeed(s, i, data) ==
    [s EXCEPT !.occupiedTerritory = data,
              !.lastUpdate = DateAt(now),
              !.isLoading = FALSE,
              !.loads = RemoveAt(@, i),
              !.ret = "true"]

\* a last exit that forgets the data loaded before
fail_dropsData(s, i) ==
    [s EXCEPT !.occupiedTerritory = NoData,
              !.error = LoadFailed,
              !.isLoading = FALSE,
              !.loads = RemoveAt(@, i),
              !.ret = "false"]

\* the last exit: every source has failed
fail(s, i) ==
    [s EXCEPT !.error = LoadFailed,
              !.isLoading = FALSE,
              !.loads = RemoveAt(@, i),
              !.ret = "false"]

\* a source has failed (response not ok, or an exception caught): the next
\* dated file, then the local copy, then the last exit
nextSource(s, i) ==
    IF s.loads[i].source < Len(Sources)
    THEN [s EXCEPT !.loads[i] = [source |-> @.source + 1, stage |-> "fetch"],
                   !.ret = "pending"]
    ELSE fail(s, i)

FrontlineCall(name, outcome, result) ==
    [op |-> name, outcome |-> outcome, ret |-> result]

FrontlineLeaves(s) ==
    /\ occupiedTerritory' = s.occupiedTerritory
    /\ lastUpdate' = s.lastUpdate
    /\ error' = s.error
    /\ isLoadingData' = s.isLoading
    /\ loads' = s.loads

\* a call of loadLatestData by the application
LoadLatestData ==
    /\ \E s \in { loadLatestData(Frontline) } :
          /\ FrontlineLeaves(s)
          /\ call' = FrontlineCall("loadLatestData", "", s.ret)
    /\ UNCHANGED <<now, newsVars, rendererVars>>

\* the callback of the setInterval of the constructor
IntervalFires ==
    /\ \E s \in { loadLatestData(Frontline) } :
          /\ FrontlineLeaves(s)
          /\ call' = FrontlineCall("setInterval", "", s.ret)
    /\ UNCHANGED <<now, newsVars, rendererVars>>

\* `await fetch(...)` of the call loads[i] settles: a response that is ok, a
\* response that is not, or an exception
ResponseSettles(i, outcome) ==
    /\ i \in 1..Len(loads)
    /\ loads[i].stage = "fetch"
    /\ \E s \in { IF outcome = "ok"
                  THEN [Frontline EXCEPT !.loads[i].stage = "json", !.ret = "pending"]
                  ELSE nextSource(Frontline, i) } :
          /\ FrontlineLeaves(s)
          /\ call' = FrontlineCall("loadLatestData.response", outcome, s.ret)
    /\ UNCHANGED <<now, newsVars, rendererVars>>

\* `await response.json()` of the call loads[i] settles: the parsed file, or
\* an exception
JsonSettles(i, outcome) ==
    /\ i \in 1..Len(loads)
    /\ loads[i].stage = "json"
    /\ \E s \in { IF outcome = "ok"
                  THEN succeed(Frontline, i, GeoJSON(Sources[loads[i].source]))
                  ELSE nextSource(Frontline, i) } :
          /\ FrontlineLeaves(s)
          /\ call' = FrontlineCall("loadLatestData.json", outcome, s.ret)
    /\ UNCHANGED <<now, newsVars, rendererVars>>

\* time passes
FrontlineTick ==
    /\ now < MaxTime
    /\ now' = now + 1
    /\ call' = FrontlineCall("tick", "", "undefined")
    /\ UNCHANGED <<newsVars, frontlineVars, rendererVars>>

\* the instance as constructed: the fields are set and loadLatestData has been
\* called, so the first load is waiting for today's file
InitFrontline ==
    /\ RendererAbsent
    /\ now = 0
    /\ cache = None /\ isLoading = None /\ fetches = None /\ preloadTimer = None
    /\ \E s \in { loadLatestData([occupiedTerritory |-> NoData,
                                  lastUpdate |-> NoDate,
                                  error |-> NoError,
                                  isLoading |-> FALSE,
                                  loads |-> << >>,
                                  ret |-> "undefined"]) } :
          /\ occupiedTerritory = s.occupiedTerritory
          /\ lastUpdate = s.lastUpdate
          /\ error = s.error
          /\ isLoadingData = s.isLoading
          /\ loads = s.loads
          /\ call = FrontlineCall("constructor", "", "undefined")

NextFrontline ==
    \/ LoadLatestData
    \/ IntervalFires
    \/ \E i \in 1..Len(loads), outcome \in {"ok", "notOk", "exception"} :
          ResponseSettles(i, outcome)
    \/ \E i \in 1..Len(loads), outcome \in {"ok", "exception"} :
          JsonSettles(i, outcome)
    \/ FrontlineTick

SpecFrontline == InitFrontline /\ [][NextFrontline]_vars

----------------------------------------------------------------------------
(* Properties of the frontline loader *)

FrontlineUnchanged ==
    UNCHANGED <<occupiedTerritory, lastUpdate, error, isLoadingData, loads>>

\* the load loads[i] returns in this step
Returns(i) == loads' = RemoveAt(loads, i)

\* C28: at most one call of loadLatestData is in progress; isLoading is true
\* exactly while one is (so it is false after each of the three exits); and a
\* call made while isLoading is true returns at once, starting no fetch and
\* changing no field.
C28_LoadNotReentrant ==
    /\ [](/\ Len(loads) <= 1
          /\ isLoadingData = (loads # << >>))
    /\ [][ (call'.op \in {"loadLatestData", "setInterval"} /\ isLoadingData)
              => call'.ret = "undefined" /\ FrontlineUnchanged ]_vars
    /\ [][ call'.ret \in {"true", "false"}
              => Len(loads) = 1 /\ loads' = << >> /\ ~isLoadingData' ]_vars

\* a call made during the load of the local copy has returned at once
C28_Witness ==
    /\ call.op = "loadLatestData"
    /\ call.ret = "undefined"
    /\ Len(loads) = 1
    /\ loads[1].source = Len(Sources)
    /\ isLoadingData

\* C30: a load returns false exactly when its last source, the local copy,
\* fails after the three dated files have; that step sets error to a message
\* and leaves occupiedTerritory and lastUpdate as they are.  A load that
\* returns true stores the file and the date and leaves error null.  The data
\* and the date change in no other step.
C30_FailureKeepsData ==
    [][ /\ \A i \in 1..Len(loads) :
              (Len(loads') < Len(loads) /\ Returns(i)) =>
                  IF loads[i].source = Len(Sources) /\ call'.outcome # "ok"
                  THEN /\ call'.ret = "false"
                       /\ error' = LoadFailed
                       /\ occupiedTerritory' = occupiedTerritory
                       /\ lastUpdate' = lastUpdate
                  ELSE /\ call'.ret = "true"
                       /\ loads[i].stage = "json"
                       /\ call'.outcome = "ok"
                       /\ error' = NoError
                       /\ occupiedTerritory' = GeoJSON(Sources[loads[i].source])
                       /\ lastUpdate' = DateAt(now)
        /\ call'.ret = "false" => Len(loads') < Len(loads)
        /\ (occupiedTerritory' # occupiedTerritory \/ lastUpdate' # lastUpdate)
              => call'.ret = "true" ]_vars

\* every source has failed after an earlier load had succeeded: the data of
\* that load is still there
C30_Witness ==
    /\ call.ret = "false"
    /\ error = LoadFailed
    /\ occupiedTerritory.kind = "geojson"
    /\ lastUpdate.kind = "date" /\ lastUpdate.at < now
    /\ ~isLoadingData

====
